---- MODULE Spec2Model ----
(***************************************************************************)
(* Reading session engine of weread_bot.                                   *)
(*                                                                         *)
(*   Spec      : one WeReadSessionManager running start_reading_session    *)
(*               (src/weread_bot/session.py).                              *)
(*   LiveSpec  : Spec with the fairness of the asyncio loop (a started     *)
(*               coroutine keeps being resumed).                           *)
(*   MultiSpec : WeReadApplication._run_multi_user_sessions                *)
(*               (src/weread_bot/app.py), sessions seen through the        *)
(*               outcome of start_reading_session.                         *)
(*   RegistrySpec : MultiSpec together with _run_single_user_session.      *)
(*   DaemonSpec   : the loop of _run_daemon_mode, rounds seen through      *)
(*               the way run_single_session ends.                          *)
(*   ReadSpec  : Spec against a server that may answer anything.           *)
(*   HashSpec, RateSpec, CurlSpec, ExtractSpec, HttpSpec, RenewSpec :      *)
(*               calculate_hash, RateLimiter, CurlParser,                  *)
(*               _extract_credited, _request_with_retries and              *)
(*               _refresh_cookie on their own.                             *)
(*   SelSpec, PosSpec : SmartReadingManager (src/weread_bot/reading.py),   *)
(*               with calls spaced by more than the cooldown, and as one   *)
(*               session uses it.                                          *)
(***************************************************************************)
EXTENDS Integers, Sequences, FiniteSets, TLC

(***************************************************************************)
(* Bounds of the model.                                                    *)
(***************************************************************************)
\* counters of reads saturate here ("MaxCount or more")
MaxCount == 3
\* the instants at which the clock is observed are k * Tick seconds after
\* the start of the session, k in 0..MaxTicks; the last one is later than
\* every wall-clock cap of Targets
MaxTicks == 4
Tick == 360
\* number of configured users of a multi-user run
NumUsers == 3
\* longest payload handed to calculate_hash
MaxPayloadLen == 4
\* concurrent callers of one RateLimiter, and the last instant (seconds)
\* of the monotonic clock that is observed
NumCallers == 2
MaxMonotonic == 7
\* most cookies, and most members of the JSON body, of a captured command
MaxPairs == 2
\* reading managers built from one configuration, and the calls of
\* get_next_reading_position that the first of them makes
NumManagers == 2
MaxCalls == 3
\* fix-up calls that may be pending at the same time
MaxFixups == 1
\* largest configured retry_times, and posts one HttpClient makes
MaxRetries == 3
MaxPosts == 2
\* pieces of one Set-Cookie header, and renewals of one session
MaxPieces == 2
MaxRenewals == 2
\* dates after the first one, largest configured max_daily_sessions, and
\* rounds the daemon starts
MaxDays == 2
MaxDaily == 2
MaxRounds == 4
\* seconds by which the credited total may fall below zero
MaxDebt == 60
\* members of one JSON object of a response
MaxKeys == 2

(***************************************************************************)
(* Program constants.                                                      *)
(***************************************************************************)
\* session.py:297  await asyncio.sleep(30)
ExceptionSleep == 30
\* session.py:254  last_time = int(time.time()) - 30
InitialLastTimeOffset == 30
\* session.py:257  target_seconds + 600
CapSlack == 600
\* session.py:257  target_seconds * 3
CapFactor == 3
\* session.py:558  if self._consecutive_failures >= 3
FatalThreshold == 3

\* target_minutes * 60 for target_minutes in {0, 1, 6}
Targets == {0, 60, 360}
\* duration hints a response may carry (addTime, ...)
Hints == {-60, 0, 60}
\* what a request can meet: a response that reports acceptance, one that
\* does not, a 2xx response whose body is not JSON, a transport failure
Kinds == {"acc", "rej", "nojson", "err"}
\* a server whose hints are never negative and whose accepting responses
\* always carry a synckey
PlainServer ==
  [kinds |-> {"acc", "rej", "err"},
   hints |-> {h \in Hints : h >= 0}, synckeys |-> {TRUE}]
\* a server that may send every hint, with or without a synckey
AnyServer == [kinds |-> Kinds, hints |-> Hints, synckeys |-> BOOLEAN]

Absent == "<absent>"
NoneVal == "<None>"

\* session.py:87-103: placeholders of the payload template
DEFAULT_DATA ==
  [appId |-> "app_id", b |-> "book_id", c |-> "chapter_id",
   ps |-> "user_id", pc |-> "device_id", s |-> "36cc0815"]

\* the values a captured profile carries for its fields
CurlValue ==
  [appId |-> "curl_appId", b |-> "curl_b", c |-> "curl_c",
   ps |-> "curl_ps", pc |-> "curl_pc", s |-> "curl_s"]

\* JSON bodies of captured profiles: a field is absent, empty or set
CurlDatas ==
  [appId : {Absent, "", CurlValue.appId},
   b     : {Absent, CurlValue.b},
   c     : {Absent, CurlValue.c},
   ps    : {Absent, "", CurlValue.ps},
   pc    : {Absent, "", CurlValue.pc},
   s     : {Absent, CurlValue.s}]

\* Python truthiness of a string-or-None value
Truthy(v) == v # NoneVal /\ v # "" /\ v # Absent

Max(a, b) == IF a >= b THEN a ELSE b
Min(a, b) == IF a <= b THEN a ELSE b

\* a counter of the statistics, kept below the bound
Inc(x) == IF x < MaxCount THEN x + 1 ELSE x

\* the instants of the clock
Times == {k * Tick : k \in 0..MaxTicks}

\* the instants at which a wait of at least d seconds begun at t may end
\* (a wait begun at the last instant ends there)
WakeTimes(t, d) ==
  IF \E u \in Times : u >= t + d
  THEN {u \in Times : u >= t + d}
  ELSE {t}

(***************************************************************************)
(* _load_curl_config: what construction extracts from the profile body.    *)
(***************************************************************************)
\* session.py:182-183
MissingFields(cd) == {f \in {"appId", "b", "c"} : cd[f] = Absent}

\* session.py:181: "if curl_data" (an empty body is falsy)
HasCurlData(cd) == \E f \in DOMAIN cd : cd[f] # Absent

\* session.py:185: the body is adopted
Adopted(cd) == HasCurlData(cd) /\ MissingFields(cd) = {}

\* session.py:186: self.data.update(curl_data), then data.get(field)
DataAfterLoad(cd, f) ==
  IF Adopted(cd) /\ cd[f] # Absent THEN cd[f] ELSE DEFAULT_DATA[f]

\* session.py:126-128, 187-189
UserField(cd, f) == IF Adopted(cd) THEN DataAfterLoad(cd, f) ELSE NoneVal

\* session.py:191
InitialS(cd) == IF Adopted(cd) /\ cd.s # Absent THEN cd.s ELSE NoneVal

\* session.py:195-196, reading.py:44-47: set_curl_data seeds a position
CurlPositionSet(cd) == Adopted(cd) /\ cd.b # "" /\ cd.c # ""

(***************************************************************************)
(* start_reading_session: loop bound.                                      *)
(***************************************************************************)
\* the cap taken as the smaller of the two limits
MinWallSeconds(target) == Min(target * CapFactor, target + CapSlack)

\* session.py:257
MaxWallSeconds(target) == Max(target * CapFactor, target + CapSlack)

\* session.py:260
LoopCondition(credited, target, wall) ==
  credited < target /\ wall < MaxWallSeconds(target)

\* session.py:244
IdentityPresent(ps, pcv, app) == Truthy(ps) /\ Truthy(pcv) /\ Truthy(app)

\* the duration hint of the response is ignored
CreditedFromRt(hasHint, hint, rtv) == rtv

\* session.py:475: credited = extracted if found else rt
Credited(hasHint, hint, rtv) == IF hasHint THEN hint ELSE rtv

\* the result of the startup renewal is not looked at
RenewalIgnored(r) == TRUE

\* session.py:229-231: the startup renewal must return True
RenewalSucceeded(r) == r = "ok"

\* an accepted request leaves the counter as it is
CounterKeptAfterAccept(cf) == cf

\* session.py:401, 487, 540, 648: an accepted request resets the counter
CounterAfterAccept(cf) == 0

\* session.py:492
CounterAfterReject(cf) == cf + 1

\* the second rejection in a row is already fatal
RaisesFatalAtTwo(cf) == cf >= 2

\* session.py:558
ShouldRaiseFatal(cf) == cf >= FatalThreshold

\* session.py:437-446, 490: a response counts as not accepted when its
\* succ and success are falsy; a body that is not JSON is read as {}
NotAccepted(kind) == kind \in {"rej", "nojson"}

\* the form rung is taken after every rejection
FormRungAlways(cf) == cf >= 1

\* session.py:495
FormRung(cf) == cf = 1

\* session.py:548
VariantRung(cf) == cf = 2

\* a transport failure counts like a rejection
CounterAdvancedByError(cf) == cf + 1

\* session.py:575-577: a transport failure returns (False, 0.0, 0) and
\* leaves _consecutive_failures alone
CounterAfterTransportError(cf) == cf

\* utils.py:80-100: the digest is hex(A + B) of two 31-bit accumulators,
\* so it has at most 8 hex digits
MaxDigestLen == 8

\* session.py:588-600: number of candidate signatures for a digest length
NumCandidates(len) == IF len > 8 THEN 4 ELSE 1

\* session.py:278-280: int((now - start_time).total_seconds())
WallSeconds(t, start) == t - start

VARIABLES
  \* ---- one session (session.py) ----
  pc,                     \* position in start_reading_session
  curl_data,              \* parsed body of the captured profile
  data,                   \* identity fields of self.data
  user_ps, user_pc, user_app_id,
  initial_s,              \* _initial_s_from_curl
  position_set,           \* reading manager has a current position
  now,                    \* wall clock, seconds since start_time
  target_seconds,
  last_time,
  rt,                     \* self.data["rt"]
  credited_seconds,       \* local of start_reading_session
  stats,                  \* session_stats
  consecutive_failures,   \* _consecutive_failures
  s_variants_tried,       \* _s_variants_tried
  result,                 \* value returned by _simulate_reading_request
  closed,                 \* http_client.close() has run
  exit_kind,              \* how start_reading_session ended
  \* ---- observation of the session ----
  reads_sent,             \* read requests posted so far
  cookie_renewed,         \* a cookie renewal of this session succeeded
  outcome,                \* how the current read ended
  variant_idx,            \* candidates of _try_s_variants already tried
  sent,                   \* identity fields of the last read request
  rej_since,              \* rejected reads since the last accepted read
  scen,                   \* progress of "reject, reject, accept 60"
  end_sets,               \* how often end_time was assigned
  initial_s_tries,        \* iterations that sent the captured s (0, 1, many)
  \* ---- the requests of one iteration ----
  data_s,                 \* self.data["s"]
  fixup_tasks,            \* _fix_no_synckey tasks created and not yet run
  \* ---- observation of the current iteration ----
  posts,                  \* read requests posted: encoding and s of each
  renewals,               \* results of the cookie renewals attempted
  fixups,                 \* fix-up calls scheduled
  accepted,               \* the accepted response: request and synckey
  main_kind,              \* what the main JSON request met
  \* ---- the server ----
  server                  \* duration hints it may send, and whether its
                          \* responses carry a synckey

sessionVars ==
  <<pc, curl_data, data, user_ps, user_pc, user_app_id,
    initial_s, position_set, now, target_seconds, last_time, rt,
    credited_seconds, stats, consecutive_failures, s_variants_tried,
    result, closed, exit_kind, reads_sent, cookie_renewed, outcome, variant_idx, sent,
    rej_since,
    scen, end_sets, initial_s_tries,
    data_s, fixup_tasks, posts, renewals, fixups, accepted, main_kind,
    server>>

VARIABLES
  \* ---- a multi-user run (app.py) ----
  profile_ok,             \* the user's profile can be loaded and parsed
  max_concurrent_users,   \* config.max_concurrent_users
  shutdown_requested,     \* WeReadApplication._shutdown_requested
  permits,                \* free slots of the semaphore
  managers,               \* WeReadApplication._current_session_managers
  task,                   \* position of each run_for_user task
  task_result,            \* what each task returned or raised
  done_order,             \* tasks in the order of their completion
  collector,              \* position of the loop over as_completed
  collected,              \* number of tasks the loop has awaited
  successful_users,
  failed_users,
  startup_mode,           \* config.startup_mode
  \* ---- observation of the run ----
  session_end,            \* how each user's start_reading_session ended
  notified                \* messages about each user's session handed to
                          \* the NotificationService

multiVars ==
  <<profile_ok, max_concurrent_users, shutdown_requested, permits,
    managers, task, task_result, done_order, collector, collected,
    successful_users, failed_users, startup_mode, session_end, notified>>

VARIABLES
  \* ---- calculate_hash applied to a payload (utils.py) ----
  h_pc,                   \* "new", "signed", "compared"
  h_input,                \* the serialized payload, a sequence of codes
  h_digest,               \* calculate_hash(h_input)
  h_pos,                  \* position of the replaced character (1-based)
  h_variant,              \* the payload with one character replaced
  h_variant_digest,       \* calculate_hash(h_variant)
  h_again                 \* calculate_hash(h_input), computed a second time

hashVars ==
  <<h_pc, h_input, h_digest, h_pos, h_variant, h_variant_digest, h_again>>

VARIABLES
  \* ---- one RateLimiter and its callers (http_client.py) ----
  rate_limit,             \* RateLimiter.rate_limit
  interval,               \* RateLimiter._interval
  last_acquire,           \* RateLimiter._last_acquire
  lock,                   \* holder of RateLimiter._lock, 0 when free
  monotonic,              \* time.monotonic(), seconds
  rl_pc,                  \* position of each caller in acquire()
  rl_wake,                \* instant at which the caller's sleep is over
  rl_called,              \* instant at which the caller called acquire()
  \* ---- observation of the limiter ----
  rl_returns,             \* number of returns of acquire() (0, 1, many)
  rl_prev_return,         \* instant of the return before the last one
  rl_last_return,         \* instant of the last return
  rl_last_delay           \* time the last returned call spent in acquire()

rateVars ==
  <<rate_limit, interval, last_acquire, lock, monotonic, rl_pc, rl_wake,
    rl_called, rl_returns, rl_prev_return, rl_last_return, rl_last_delay>>

VARIABLES
  \* ---- CurlParser applied to a captured command (utils.py) ----
  c_pc,                   \* "idle", "given", "parsed"
  c_command,              \* the text of the command
  c_quotes,               \* quote character of the -H, -b and data argument
  c_given,                \* header, cookies and body the command was made of
  c_result                \* what parse_curl_command returned

curlVars == <<c_pc, c_command, c_quotes, c_given, c_result>>

VARIABLES
  \* ---- _extract_credited applied to a response (session.py) ----
  x_pc,                   \* "idle", "given", "extracted"
  x_response,             \* the decoded body of an accepting response
  x_rt,                   \* self.data["rt"] of the request
  x_credited              \* the credited seconds computed

extractVars == <<x_pc, x_response, x_rt, x_credited>>

VARIABLES
  \* ---- reading managers over one configuration (reading.py) ----
  mode,                   \* config.reading.mode
  fallback_to_config,     \* config.reading.fallback_to_config
  lists,                  \* the list objects: lists[r] is the content of r
  books,                  \* config.reading.books: <<[id, chapters]>>
  reading_manager,        \* the fields of each SmartReadingManager
  adopts_left,            \* calls of set_curl_data each manager may make
  calls_left,             \* calls of get_next_reading_position left
  book_switch_cooldown,   \* config.reading.smart_random.book_switch_cooldown
  clock,                  \* time.time() at the latest call that read it
  session_phase,          \* where the session that owns the manager is:
                          \* "none" (no session: the manager is called
                          \* directly), "constructed", "ready", "fatal"
  callers,                \* what the callers of the managers may do
  \* ---- observation of the reading managers ----
  returned,               \* positions each manager has returned, in order
  last_op,                \* the last call: manager, method, position before
  books_at_start,         \* the configured catalog as it was loaded
  profile,                \* b, c and ci of the profile of each manager
  switched_to             \* book the latest call switched to at random

selVars ==
  <<mode, fallback_to_config, lists, books, reading_manager, adopts_left,
    calls_left, book_switch_cooldown, clock, session_phase, callers,
    returned, last_op, books_at_start, profile, switched_to>>

VARIABLES
  \* ---- one HttpClient and its posts (http_client.py) ----
  retry_times,            \* config.retry_times
  post_pc,                \* position in _request_with_retries
  attempts,               \* local of _request_with_retries
  attempt,                \* the loop variable
  last_error,             \* local of _request_with_retries
  request_times,          \* number of entries of HttpClient.request_times
  posts_left,             \* calls of _request_with_retries still to come
  \* ---- observation of the current call ----
  slots,                  \* rate-limit slots acquired
  tries,                  \* what each attempt that was sent met
  sleeps,                 \* backoff sleeps begun
  raised                  \* the error the call raised

httpVars ==
  <<retry_times, post_pc, attempts, attempt, last_error, request_times,
    posts_left, slots, tries, sleeps, raised>>

VARIABLES
  \* ---- _refresh_cookie and the renewal response (session.py) ----
  cookies,                \* self.cookies: the value of each cookie
  renew_response,         \* what the latest renewal post met
  renew_result,           \* what the latest _refresh_cookie returned
  renewals_left           \* calls of _refresh_cookie still to come

renewVars == <<cookies, renew_response, renew_result, renewals_left>>

VARIABLES
  \* ---- _run_single_user_session (app.py) ----
  users_configured,       \* config.users is not empty
  single_profile_ok,      \* the profile of the single user can be loaded
  single_pc,              \* "unused", "called", "running", "done"
  single_end              \* how the session of the single user ended

singleVars == <<users_configured, single_profile_ok, single_pc, single_end>>

VARIABLES
  \* ---- _run_daemon_mode (app.py) ----
  daemon_pc,              \* position in the loop of _run_daemon_mode
  max_daily_sessions,     \* config.daemon.max_daily_sessions
  daily_session_count,    \* WeReadApplication._daily_session_count
  last_session_date,      \* WeReadApplication._last_session_date
  today,                  \* datetime.now().date(), in days
  \* ---- observation of the daemon ----
  rounds_started,         \* rounds started on each date
  started_after_shutdown  \* a round was started after a shutdown request

daemonVars ==
  <<daemon_pc, max_daily_sessions, daily_session_count, last_session_date,
    today, rounds_started, started_after_shutdown>>

\* variables of the library parts, each with a specification of its own
libVars ==
  <<hashVars, rateVars, curlVars, selVars, extractVars, httpVars,
    renewVars, singleVars, daemonVars>>

\* what the operations of each library part leave alone
notHash ==
  <<sessionVars, multiVars, rateVars, curlVars, selVars,
    extractVars, httpVars, renewVars, singleVars, daemonVars>>
notRate ==
  <<sessionVars, multiVars, hashVars, curlVars, selVars,
    extractVars, httpVars, renewVars, singleVars, daemonVars>>
notCurl ==
  <<sessionVars, multiVars, hashVars, rateVars, selVars,
    extractVars, httpVars, renewVars, singleVars, daemonVars>>
notSel ==
  <<sessionVars, multiVars, hashVars, rateVars, curlVars,
    extractVars, httpVars, renewVars, singleVars, daemonVars>>
notExtract ==
  <<sessionVars, multiVars, hashVars, rateVars, curlVars,
    selVars, httpVars, renewVars, singleVars, daemonVars>>
notHttp ==
  <<sessionVars, multiVars, hashVars, rateVars, curlVars,
    selVars, extractVars, renewVars, singleVars, daemonVars>>
notRenew ==
  <<sessionVars, multiVars, hashVars, rateVars, curlVars,
    selVars, extractVars, httpVars, singleVars, daemonVars>>
notSingle ==
  <<sessionVars, multiVars, hashVars, rateVars, curlVars,
    selVars, extractVars, httpVars, renewVars, daemonVars>>
notDaemon ==
  <<sessionVars, multiVars, hashVars, rateVars, curlVars,
    selVars, extractVars, httpVars, renewVars, singleVars>>

vars == <<sessionVars, multiVars, libVars>>

NoRequest == [appId |-> NoneVal, ps |-> NoneVal, pc |-> NoneVal]
NoResult == [success |-> FALSE, credited |-> 0]
NoAccept == [by |-> "none", synckey |-> FALSE]

\* session.py:24-38
NewStats ==
  [start_time |-> 0, end_time |-> -1, actual_duration_seconds |-> 0,
   credited_seconds |-> 0,
   successful_reads |-> 0, failed_reads |-> 0]

(***************************************************************************)
(* State after WeReadSessionManager.__init__ (session.py:105-132).         *)
(***************************************************************************)
SessionInit ==
  /\ curl_data \in CurlDatas
  /\ target_seconds \in Targets
  /\ data = [f \in {"appId", "ps", "pc"} |-> DataAfterLoad(curl_data, f)]
  /\ user_ps = UserField(curl_data, "ps")
  /\ user_pc = UserField(curl_data, "pc")
  /\ user_app_id = UserField(curl_data, "appId")
  /\ initial_s = InitialS(curl_data)
  /\ position_set = CurlPositionSet(curl_data)
  /\ pc = "Idle"
  /\ now = 0
  /\ last_time = 0
  /\ rt = 0
  /\ credited_seconds = 0
  /\ stats = NewStats
  /\ consecutive_failures = 0
  /\ s_variants_tried = FALSE
  /\ result = NoResult
  /\ closed = FALSE
  /\ exit_kind = "none"
  /\ reads_sent = 0
  /\ cookie_renewed = FALSE
  /\ outcome = "none"
  /\ variant_idx = 0
  /\ sent = NoRequest
  /\ rej_since = 0
  /\ scen = 0
  /\ end_sets = 0
  /\ initial_s_tries = 0
  /\ data_s = DataAfterLoad(curl_data, "s")
  /\ fixup_tasks = 0
  /\ posts = <<>>
  /\ renewals = <<>>
  /\ fixups = 0
  /\ accepted = NoAccept
  /\ main_kind = "none"
  /\ server \in {PlainServer, AnyServer}

(***************************************************************************)
(* Observation of a read request and of the outcome of a read.             *)
(***************************************************************************)
\* the payload keeps the placeholders of the template
PayloadIdentityOfTemplate ==
  [appId |-> DEFAULT_DATA.appId, ps |-> DEFAULT_DATA.ps,
   pc |-> DEFAULT_DATA.pc]

\* session.py:344-350: identity fields of the payload that is posted
PayloadIdentity ==
  [appId |-> IF Truthy(user_app_id) THEN user_app_id ELSE data.appId,
   ps    |-> IF Truthy(user_ps) THEN user_ps ELSE data.ps,
   pc    |-> IF Truthy(user_pc) THEN user_pc ELSE data.pc]

\* progress through "rejected, rejected, accepted with addTime = 60":
\* 0..3 reads of the scenario seen, 4 the run left the scenario,
\* 5 a read request followed the accepted read
ScenAfterRead(sc, kind, hasHint, hint) ==
  CASE sc = 0 /\ kind = "rej" -> 1
    [] sc = 1 /\ kind = "rej" -> 2
    [] sc = 2 /\ kind = "acc" /\ hasHint /\ hint = 60 -> 3
    [] sc = 5 -> 5
    [] OTHER -> 4

ScenAfterSend(sc) == IF sc = 3 THEN 5 ELSE sc

\* a read request is posted to READ_URL (http_client.post_raw)
PostRead ==
  /\ reads_sent' = Inc(reads_sent)
  /\ sent' = PayloadIdentity

(***************************************************************************)
(* start_reading_session: startup (session.py:211-257).                    *)
(***************************************************************************)
\* session.py:229-231 with _refresh_cookie (662-697)
RefreshCookieAtStartup ==
  /\ pc = "Idle"
  /\ \E r \in {"ok", "nokey", "error"} :
       /\ cookie_renewed' = (cookie_renewed \/ r = "ok")
       /\ IF RenewalSucceeded(r)
          THEN /\ pc' = "CookieRenewed"
               /\ exit_kind' = exit_kind
          ELSE /\ pc' = "Aborted"
               /\ exit_kind' = "abort_cookie"
  /\ UNCHANGED <<multiVars, libVars, server>>
  /\ UNCHANGED initial_s_tries
  /\ UNCHANGED <<data_s, fixup_tasks, posts, renewals, fixups, accepted,
                 main_kind>>
  /\ UNCHANGED <<curl_data, data, user_ps, user_pc,
                 user_app_id, initial_s, position_set, now, target_seconds,
                 last_time, rt, credited_seconds, stats,
                 consecutive_failures, s_variants_tried, result, closed,
                 reads_sent, outcome, variant_idx, sent, rej_since, scen,
                 end_sets>>

\* session.py:233-241 with reading.py:193-209; fallback_ok stands for
\* "config.fallback_to_config and book_chapters_map" (reading.py:195)
EnsureInitialized ==
  /\ pc = "CookieRenewed"
  /\ \E fallback_ok \in BOOLEAN :
       IF position_set \/ fallback_ok
       THEN /\ position_set' = TRUE
            /\ pc' = "Initialized"
            /\ exit_kind' = exit_kind
       ELSE /\ position_set' = position_set
            /\ pc' = "Fatal"
            /\ exit_kind' = "abort_init"
  /\ UNCHANGED <<multiVars, libVars, server>>
  /\ UNCHANGED initial_s_tries
  /\ UNCHANGED <<data_s, fixup_tasks, posts, renewals, fixups, accepted,
                 main_kind>>
  /\ UNCHANGED <<curl_data, data, user_ps, user_pc,
                 user_app_id, initial_s, now, target_seconds, last_time, rt,
                 credited_seconds, stats, consecutive_failures,
                 s_variants_tried, result, closed, reads_sent,
                 cookie_renewed, outcome, variant_idx, sent, rej_since,
                 scen, end_sets>>

\* session.py:243-257
VerifyIdentity ==
  /\ pc = "Initialized"
  /\ IF IdentityPresent(user_ps, user_pc, user_app_id)
     THEN /\ pc' = "Looping"
          /\ last_time' = now - InitialLastTimeOffset
          /\ credited_seconds' = 0
          /\ exit_kind' = exit_kind
     ELSE /\ pc' = "Fatal"
          /\ exit_kind' = "abort_identity"
          /\ UNCHANGED <<last_time, credited_seconds>>
  /\ UNCHANGED <<multiVars, libVars, server>>
  /\ UNCHANGED initial_s_tries
  /\ UNCHANGED <<data_s, fixup_tasks, posts, renewals, fixups, accepted,
                 main_kind>>
  /\ UNCHANGED <<curl_data, data, user_ps, user_pc,
                 user_app_id, initial_s, position_set, now, target_seconds,
                 rt, stats, consecutive_failures, s_variants_tried, result,
                 closed, reads_sent, cookie_renewed, outcome, variant_idx,
                 sent, rej_since, scen, end_sets>>

(***************************************************************************)
(* start_reading_session: the loop (session.py:259-313).                   *)
(***************************************************************************)
\* session.py:260: the while condition holds, an iteration begins
EnterIteration ==
  /\ pc = "Looping"
  /\ LoopCondition(credited_seconds, target_seconds,
                   stats.actual_duration_seconds)
  /\ pc' = "prepare"
  /\ outcome' = "none"
  /\ UNCHANGED <<multiVars, libVars, server>>
  /\ UNCHANGED initial_s_tries
  /\ UNCHANGED <<data_s, fixup_tasks, posts, renewals, fixups, accepted,
                 main_kind>>
  /\ UNCHANGED <<curl_data, data, user_ps, user_pc,
                 user_app_id, initial_s, position_set, now, target_seconds,
                 last_time, rt, credited_seconds, stats,
                 consecutive_failures, s_variants_tried, result, closed,
                 exit_kind, reads_sent, cookie_renewed, variant_idx, sent,
                 rej_since, scen, end_sets>>

\* session.py:299-313: the while condition fails, the session completes
CompleteSession ==
  /\ pc = "Looping"
  /\ ~LoopCondition(credited_seconds, target_seconds,
                    stats.actual_duration_seconds)
  /\ stats' = [stats EXCEPT
                 !.end_time = now,
                 !.credited_seconds = credited_seconds,
                 !.actual_duration_seconds = WallSeconds(now, stats.start_time)]
  /\ end_sets' = end_sets + 1
  /\ closed' = TRUE
  /\ pc' = "Completed"
  /\ exit_kind' = "completed"
  /\ UNCHANGED <<multiVars, libVars, server>>
  /\ UNCHANGED initial_s_tries
  /\ UNCHANGED <<data_s, fixup_tasks, posts, renewals, fixups, accepted,
                 main_kind>>
  /\ UNCHANGED <<curl_data, data, user_ps, user_pc,
                 user_app_id, initial_s, position_set, now, target_seconds,
                 last_time, rt, credited_seconds, consecutive_failures,
                 s_variants_tried, result, reads_sent, cookie_renewed,
                 outcome, variant_idx, sent, rej_since, scen>>

\* session.py:317-362 raise (get_next_reading_position, reading.py:83-86,
\* 156, 168), caught at session.py:294-297
PrepareRaises ==
  /\ pc = "prepare"
  /\ stats' = [stats EXCEPT !.failed_reads = Inc(@)]
  /\ now' \in WakeTimes(now, ExceptionSleep)
  /\ outcome' = "exc"
  /\ scen' = ScenAfterRead(scen, "exc", FALSE, 0)
  /\ pc' = "Looping"
  /\ UNCHANGED <<multiVars, libVars, server>>
  /\ UNCHANGED initial_s_tries
  /\ UNCHANGED <<data_s, fixup_tasks, posts, renewals, fixups, accepted,
                 main_kind>>
  /\ UNCHANGED <<curl_data, data, user_ps, user_pc,
                 user_app_id, initial_s, position_set, target_seconds,
                 last_time, rt, credited_seconds, consecutive_failures,
                 s_variants_tried, result, closed, exit_kind, reads_sent,
                 cookie_renewed, variant_idx, sent, rej_since, end_sets>>

\* session.py:317-366: position, identity, timing fields and signatures
PreparePayload ==
  /\ pc = "prepare"
  /\ rt' = now - last_time
  /\ pc' = IF Truthy(initial_s) THEN "initial_s" ELSE "main"
  /\ UNCHANGED <<multiVars, libVars, server>>
  /\ UNCHANGED initial_s_tries
  /\ data_s' = Absent
  /\ UNCHANGED <<fixup_tasks, posts, renewals, fixups, accepted, main_kind>>
  /\ UNCHANGED <<curl_data, data, user_ps, user_pc,
                 user_app_id, initial_s, position_set, now, target_seconds,
                 last_time, credited_seconds, stats, consecutive_failures,
                 s_variants_tried, result, closed, exit_kind, reads_sent,
                 cookie_renewed, outcome, variant_idx, sent, rej_since,
                 scen, end_sets>>

\* session.py:478: "synckey" not in response_data
NeedsFixup(synckey) == ~synckey

\* an accepted request: session.py:398-402, 474-488, 537-541, 641-649
Accepted(hasHint, hint, newCounter) ==
  /\ hasHint => credited_seconds + hint >= -MaxDebt
  /\ consecutive_failures' = newCounter
  /\ result' = [success |-> TRUE, credited |-> Credited(hasHint, hint, rt)]
  /\ outcome' = IF hasHint /\ hint = 60 THEN "acc60" ELSE "acc"
  /\ pc' = "record"

\* session.py:366-406: the request signed with the captured s
TryInitialS ==
  /\ pc = "initial_s"
  /\ data_s' = initial_s
  /\ PostRead
  /\ posts' = Append(posts, [enc |-> "json", s |-> data_s'])
  /\ scen' = ScenAfterSend(scen)
  /\ initial_s_tries' = Min(2, initial_s_tries + 1)
  /\ \E kind \in server.kinds, hasHint \in BOOLEAN, hint \in server.hints,
        synckey \in server.synckeys :
       IF kind = "acc"
       THEN /\ Accepted(hasHint, hint,
                        CounterAfterAccept(consecutive_failures))
            /\ accepted' = [by |-> "captured", synckey |-> synckey]
       ELSE /\ pc' = "main"
            /\ UNCHANGED <<consecutive_failures, result, outcome, accepted>>
  /\ UNCHANGED <<multiVars, libVars, server>>
  /\ UNCHANGED <<fixup_tasks, renewals, fixups, main_kind>>
  /\ UNCHANGED <<curl_data, data, user_ps, user_pc,
                 user_app_id, initial_s, position_set, now, target_seconds,
                 last_time, rt, credited_seconds, stats, s_variants_tried,
                 closed, exit_kind, cookie_renewed, variant_idx, rej_since,
                 end_sets>>

\* session.py:409-492, 573-577: the request signed with the computed s
MainRequest ==
  /\ pc = "main"
  /\ data_s' = "calculated"
  /\ PostRead
  /\ posts' = Append(posts, [enc |-> "json", s |-> data_s'])
  /\ scen' = ScenAfterSend(scen)
  /\ \E kind \in server.kinds, hasHint \in BOOLEAN, hint \in server.hints,
        synckey \in server.synckeys :
       /\ main_kind' = kind
       /\ CASE kind = "acc" ->
                 /\ Accepted(hasHint, hint,
                             CounterAfterAccept(consecutive_failures))
                 /\ accepted' = [by |-> "main", synckey |-> synckey]
                 /\ IF NeedsFixup(synckey)
                    THEN /\ fixup_tasks < MaxFixups
                         /\ fixup_tasks' = fixup_tasks + 1
                         /\ fixups' = fixups + 1
                    ELSE UNCHANGED <<fixup_tasks, fixups>>
            [] NotAccepted(kind) ->
                 /\ UNCHANGED <<accepted, fixup_tasks, fixups>>
                 /\ consecutive_failures' = CounterAfterReject(consecutive_failures)
                 /\ pc' = CASE FormRung(consecutive_failures') -> "form"
                            [] VariantRung(consecutive_failures') -> "variants"
                            [] OTHER -> "decide"
                 /\ UNCHANGED <<result, outcome>>
            [] kind = "err" ->
                 /\ result' = [success |-> FALSE, credited |-> 0]
                 /\ outcome' = "err"
                 /\ pc' = "record"
                 /\ consecutive_failures' =
                      CounterAfterTransportError(consecutive_failures)
                 /\ UNCHANGED <<accepted, fixup_tasks, fixups>>
  /\ variant_idx' = 0
  /\ UNCHANGED <<multiVars, libVars, server>>
  /\ UNCHANGED <<initial_s_tries, renewals>>
  /\ UNCHANGED <<curl_data, data, user_ps, user_pc,
                 user_app_id, initial_s, position_set, now, target_seconds,
                 last_time, rt, credited_seconds, stats, s_variants_tried,
                 closed, exit_kind, cookie_renewed, rej_since, end_sets>>

\* session.py:494-545: first failure, the payload re-sent as form data
FormFallback ==
  /\ pc = "form"
  /\ PostRead
  /\ posts' = Append(posts, [enc |-> "form", s |-> data_s])
  /\ scen' = ScenAfterSend(scen)
  /\ \E kind \in server.kinds, hasHint \in BOOLEAN, hint \in server.hints,
        synckey \in server.synckeys :
       IF kind = "acc"
       THEN /\ Accepted(hasHint, hint,
                        CounterAfterAccept(consecutive_failures))
            /\ accepted' = [by |-> "form", synckey |-> synckey]
       ELSE /\ pc' = "decide"
            /\ UNCHANGED <<consecutive_failures, result, outcome, accepted>>
  /\ UNCHANGED <<multiVars, libVars, server>>
  /\ UNCHANGED <<initial_s_tries, data_s, fixup_tasks, renewals, fixups,
                 main_kind>>
  /\ UNCHANGED <<curl_data, data, user_ps, user_pc,
                 user_app_id, initial_s, position_set, now, target_seconds,
                 last_time, rt, credited_seconds, stats, s_variants_tried,
                 closed, exit_kind, cookie_renewed, variant_idx, rej_since,
                 end_sets>>

\* session.py:582-583: the candidates were already tried in this session
SkipSVariants ==
  /\ pc = "variants"
  /\ s_variants_tried
  /\ pc' = "decide"
  /\ UNCHANGED <<multiVars, libVars, server>>
  /\ UNCHANGED initial_s_tries
  /\ UNCHANGED <<data_s, fixup_tasks, posts, renewals, fixups, accepted,
                 main_kind>>
  /\ UNCHANGED <<curl_data, data, user_ps, user_pc,
                 user_app_id, initial_s, position_set, now, target_seconds,
                 last_time, rt, credited_seconds, stats,
                 consecutive_failures, s_variants_tried, result, closed,
                 exit_kind, reads_sent, cookie_renewed, outcome,
                 variant_idx, sent, rej_since, scen, end_sets>>

\* session.py:585-600: the candidates are generated
BeginSVariants ==
  /\ pc = "variants"
  /\ ~s_variants_tried
  /\ s_variants_tried' = TRUE
  /\ variant_idx' = 0
  /\ pc' = "variant"
  /\ UNCHANGED <<multiVars, libVars, server>>
  /\ UNCHANGED initial_s_tries
  /\ UNCHANGED <<data_s, fixup_tasks, posts, renewals, fixups, accepted,
                 main_kind>>
  /\ UNCHANGED <<curl_data, data, user_ps, user_pc,
                 user_app_id, initial_s, position_set, now, target_seconds,
                 last_time, rt, credited_seconds, stats,
                 consecutive_failures, result, closed, exit_kind,
                 reads_sent, cookie_renewed, outcome, sent, rej_since, scen,
                 end_sets>>

\* session.py:604-660: one candidate is posted
TrySVariant ==
  /\ pc = "variant"
  /\ variant_idx < NumCandidates(MaxDigestLen)
  /\ PostRead
  /\ posts' = Append(posts, [enc |-> "json", s |-> "variant"])
  /\ scen' = ScenAfterSend(scen)
  /\ \E kind \in server.kinds, hasHint \in BOOLEAN, hint \in server.hints,
        synckey \in server.synckeys :
       IF kind = "acc"
       THEN /\ Accepted(hasHint, hint,
                        CounterAfterAccept(consecutive_failures))
            /\ accepted' = [by |-> "variant", synckey |-> synckey]
            /\ variant_idx' = variant_idx
       ELSE /\ variant_idx' = variant_idx + 1
            /\ pc' = IF variant_idx' < NumCandidates(MaxDigestLen)
                     THEN "variant" ELSE "decide"
            /\ UNCHANGED <<consecutive_failures, result, outcome, accepted>>
  /\ UNCHANGED <<multiVars, libVars, server>>
  /\ UNCHANGED <<initial_s_tries, data_s, fixup_tasks, renewals, fixups,
                 main_kind>>
  /\ UNCHANGED <<curl_data, data, user_ps, user_pc,
                 user_app_id, initial_s, position_set, now, target_seconds,
                 last_time, rt, credited_seconds, stats, s_variants_tried,
                 closed, exit_kind, cookie_renewed, rej_since, end_sets>>

\* session.py:558-564, 290-293, 312-313: the third rejection is fatal
RaiseFatal ==
  /\ pc = "decide"
  /\ ShouldRaiseFatal(consecutive_failures)
  /\ rej_since' = rej_since + 1
  /\ outcome' = "rej"
  /\ scen' = ScenAfterRead(scen, "rej", FALSE, 0)
  /\ closed' = TRUE
  /\ pc' = "Fatal"
  /\ exit_kind' = "fatal_loop"
  /\ UNCHANGED <<multiVars, libVars, server>>
  /\ UNCHANGED initial_s_tries
  /\ UNCHANGED <<data_s, fixup_tasks, posts, renewals, fixups, accepted,
                 main_kind>>
  /\ UNCHANGED <<curl_data, data, user_ps, user_pc,
                 user_app_id, initial_s, position_set, now, target_seconds,
                 last_time, rt, credited_seconds, stats,
                 consecutive_failures, s_variants_tried, result,
                 reads_sent, cookie_renewed, variant_idx, sent, end_sets>>

\* session.py:566-572: one opportunistic renewal, the read has failed
RefreshAfterReject ==
  /\ pc = "decide"
  /\ ~ShouldRaiseFatal(consecutive_failures)
  /\ \E r \in {"ok", "nokey", "error"} :
       /\ cookie_renewed' = (cookie_renewed \/ r = "ok")
       /\ renewals' = Append(renewals, r)
  /\ result' = [success |-> FALSE, credited |-> 0]
  /\ outcome' = "rej"
  /\ pc' = "record"
  /\ UNCHANGED <<multiVars, libVars, server>>
  /\ UNCHANGED <<initial_s_tries, data_s, fixup_tasks, posts, fixups,
                 accepted, main_kind>>
  /\ UNCHANGED <<curl_data, data, user_ps, user_pc,
                 user_app_id, initial_s, position_set, now, target_seconds,
                 last_time, rt, credited_seconds, stats,
                 consecutive_failures, s_variants_tried, closed, exit_kind,
                 reads_sent, variant_idx, sent, rej_since, scen, end_sets>>

\* session.py:263-288: the result is recorded, then the interval sleep
RecordRead ==
  /\ pc = "record"
  /\ IF result.success
     THEN /\ stats' = [stats EXCEPT
                         !.successful_reads = Inc(@),
                         !.actual_duration_seconds =
                            WallSeconds(now, stats.start_time)]
          /\ credited_seconds' = credited_seconds + result.credited
          /\ last_time' = now
          /\ rej_since' = 0
     ELSE /\ stats' = [stats EXCEPT
                         !.failed_reads = Inc(@),
                         !.actual_duration_seconds =
                            WallSeconds(now, stats.start_time)]
          /\ rej_since' = IF outcome = "rej" THEN rej_since + 1 ELSE rej_since
          /\ UNCHANGED <<credited_seconds, last_time>>
  /\ scen' = ScenAfterRead(scen, IF result.success THEN "acc" ELSE outcome,
                           outcome = "acc60", 60)
  /\ now' \in WakeTimes(now, 0)
  /\ pc' = "Looping"
  /\ UNCHANGED <<multiVars, libVars, server>>
  /\ UNCHANGED initial_s_tries
  /\ posts' = <<>>
  /\ renewals' = <<>>
  /\ fixups' = 0
  /\ accepted' = NoAccept
  /\ main_kind' = "none"
  /\ UNCHANGED <<data_s, fixup_tasks>>
  /\ UNCHANGED <<curl_data, data, user_ps, user_pc,
                 user_app_id, initial_s, position_set, target_seconds, rt,
                 consecutive_failures, s_variants_tried, result, closed,
                 exit_kind, reads_sent, cookie_renewed, outcome,
                 variant_idx, sent, end_sets>>

\* session.py:699-709: a task created at session.py:481 runs; its failure
\* is logged only (after close() the call can only fail)
FixNoSynckey ==
  /\ fixup_tasks > 0
  /\ \E r \in {"ok", "error"} : r = "ok" => ~closed
  /\ fixup_tasks' = fixup_tasks - 1
  /\ UNCHANGED <<multiVars, libVars, server>>
  /\ UNCHANGED <<pc, curl_data, data, user_ps, user_pc, user_app_id,
                 initial_s, position_set, now, target_seconds, last_time,
                 rt, credited_seconds, stats, consecutive_failures,
                 s_variants_tried, result, closed, exit_kind, reads_sent,
                 cookie_renewed, outcome, variant_idx, sent, rej_since,
                 scen, end_sets, initial_s_tries, data_s, posts, renewals,
                 fixups, accepted, main_kind>>

SessionNext ==
  \/ RefreshCookieAtStartup
  \/ EnsureInitialized
  \/ VerifyIdentity
  \/ EnterIteration
  \/ CompleteSession
  \/ PrepareRaises
  \/ PreparePayload
  \/ TryInitialS
  \/ MainRequest
  \/ FormFallback
  \/ SkipSVariants
  \/ BeginSVariants
  \/ TrySVariant
  \/ RaiseFatal
  \/ RefreshAfterReject
  \/ RecordRead

(***************************************************************************)
(* calculate_hash (utils.py:80-101) on strings given as sequences of       *)
(* character codes.                                                        *)
(***************************************************************************)
\* utils.py:81: the seed of both accumulators, 0x15051505
HashSeed == 352654597

\* utils.py:88, 92: the shift amounts are taken modulo 30
ShiftModulus == 30

\* utils.py:89, 93: the accumulators are cut to 31 bits, 0x7FFFFFFF
HashBits == 31

\* bitwise exclusive or of two naturals (the operator ^ of utils.py:89, 93)
RECURSIVE Xor(_, _)
Xor(a, b) ==
  IF a = 0 THEN b
  ELSE IF b = 0 THEN a
  ELSE (((a % 2) + (b % 2)) % 2) + 2 * Xor(a \div 2, b \div 2)

\* utils.py:89, 93: 0x7FFFFFFF & (acc ^ code << shift). The accumulator is
\* below 2^31, so the mask only cuts the shifted code; it is cut before the
\* shift to stay within the integers of the checker.
Absorb(acc, code, shift) ==
  Xor(acc, (code % (2 ^ (HashBits - shift))) * (2 ^ shift))

\* the loop started one character before the last one
StartBeforeLast(length) == length - 2

\* utils.py:84: the loop starts at the last character
StartIndex(length) == length - 1

\* utils.py:86-94: the loop, j is the 0-based index _19094e
RECURSIVE HashLoop(_, _, _, _)
HashLoop(str, j, A, B) ==
  IF ~(j > 0) THEN <<A, B>>
  ELSE HashLoop(str, j - 2,
                Absorb(A, str[j + 1], (Len(str) - j) % ShiftModulus),
                Absorb(B, str[j], j % ShiftModulus))

HexDigits ==
  <<"0", "1", "2", "3", "4", "5", "6", "7",
    "8", "9", "a", "b", "c", "d", "e", "f">>

\* utils.py:96: hex(n)[2:].lower(), the digits of n without leading zeros
RECURSIVE Hex(_)
Hex(n) ==
  IF n < 16 THEN <<HexDigits[n + 1]>>
  ELSE Append(Hex(n \div 16), HexDigits[(n % 16) + 1])

\* utils.py:96: hex(A + B); the sum can need 32 bits, so its digits are
\* produced from the two 16-bit halves of the sum
HexOfSum(A, B) ==
  LET lo == (A % 65536) + (B % 65536)
      hi == (A \div 65536) + (B \div 65536) + (lo \div 65536)
      low == Hex(lo % 65536)
  IN  IF hi = 0 THEN low
      ELSE Hex(hi) \o [k \in 1..(4 - Len(low)) |-> "0"] \o low

\* utils.py:80-96
calculate_hash(str) ==
  LET ab == HashLoop(str, StartIndex(Len(str)), HashSeed, HashSeed)
  IN  HexOfSum(ab[1], ab[2])

\* the characters of the payloads: "&", "1", "=", "a"
HashChars == {38, 49, 61, 97}

Payloads == UNION {[1..n -> HashChars] : n \in 0..MaxPayloadLen}

\* a payload has been serialized and is about to be signed
HashInit ==
  /\ h_pc = "new"
  /\ h_input \in Payloads
  /\ h_digest = <<>>
  /\ h_pos = 0
  /\ h_variant = <<>>
  /\ h_variant_digest = <<>>
  /\ h_again = <<>>

\* session.py:362: calculate_hash is applied to the payload
HashPayload ==
  /\ h_pc = "new"
  /\ h_digest' = calculate_hash(h_input)
  /\ h_pc' = "signed"
  /\ UNCHANGED <<h_input, h_pos, h_variant, h_variant_digest, h_again>>
  /\ UNCHANGED notHash

\* one character of the payload is replaced by a different one; the
\* variant and, once more, the payload are signed
HashVariant ==
  /\ h_pc = "signed"
  /\ \E p \in 1..Len(h_input) : \E c \in HashChars \ {h_input[p]} :
       /\ h_pos' = p
       /\ h_variant' = [h_input EXCEPT ![p] = c]
       /\ h_variant_digest' = calculate_hash([h_input EXCEPT ![p] = c])
  /\ h_again' = calculate_hash(h_input)
  /\ h_pc' = "compared"
  /\ UNCHANGED <<h_input, h_digest>>
  /\ UNCHANGED notHash

HashNext == HashPayload \/ HashVariant

(***************************************************************************)
(* RateLimiter (http_client.py:7-23) with concurrent callers.  Time is     *)
(* counted in whole seconds; it passes only while a coroutine is           *)
(* suspended.                                                              *)
(***************************************************************************)
Callers == 1..NumCallers

\* values of rate_limit given to the constructor
RateLimits == {-1, 0, 15, 20, 30}

\* http_client.py:9
ClampedRate(r) == Max(0, r)

\* http_client.py:10: 60.0 / rate_limit, or 0
Interval(r) == IF r > 0 THEN 60 \div r ELSE 0

\* a wait that forgets the previous acquisition
WaitSinceEpoch(iv, t, last) == iv - t

\* http_client.py:19
WaitTime(iv, t, last) == iv - (t - last)

\* http_client.py:8-12: the limiter after construction; the monotonic clock
\* shows some instant
RateInit ==
  /\ \E r \in RateLimits :
       /\ rate_limit = ClampedRate(r)
       /\ interval = Interval(ClampedRate(r))
  /\ last_acquire = 0
  /\ lock = 0
  /\ monotonic \in {0, 1, 3}
  /\ rl_pc = [c \in Callers |-> "idle"]
  /\ rl_wake = [c \in Callers |-> 0]
  /\ rl_called = [c \in Callers |-> 0]
  /\ rl_returns = 0
  /\ rl_prev_return = 0
  /\ rl_last_return = 0
  /\ rl_last_delay = 0

\* acquire() of caller c returns
RateReturn(c) ==
  /\ rl_pc' = [rl_pc EXCEPT ![c] = "idle"]
  /\ rl_returns' = Min(2, rl_returns + 1)
  /\ rl_prev_return' = rl_last_return
  /\ rl_last_return' = monotonic
  /\ rl_last_delay' = monotonic - rl_called[c]

\* http_client.py:14-17: acquire() is called; an unlimited limiter returns
\* at once, otherwise the caller queues for the lock
RateCall(c) ==
  /\ rl_pc[c] = "idle"
  /\ rl_called' = [rl_called EXCEPT ![c] = monotonic]
  /\ IF rate_limit <= 0
     THEN /\ rl_pc' = [rl_pc EXCEPT ![c] = "idle"]
          /\ rl_returns' = Min(2, rl_returns + 1)
          /\ rl_prev_return' = rl_last_return
          /\ rl_last_return' = monotonic
          /\ rl_last_delay' = 0
     ELSE /\ rl_pc' = [rl_pc EXCEPT ![c] = "queued"]
          /\ UNCHANGED <<rl_returns, rl_prev_return, rl_last_return,
                         rl_last_delay>>
  /\ UNCHANGED <<rate_limit, interval, last_acquire, lock, monotonic,
                 rl_wake>>
  /\ UNCHANGED notRate

\* http_client.py:17-23: the lock is taken, the clock is read; the caller
\* sleeps for wait_time, or records the acquisition and returns
RateEnter(c) ==
  /\ rl_pc[c] = "queued"
  /\ lock = 0
  /\ LET wait_time == WaitTime(interval, monotonic, last_acquire)
     IN  IF wait_time > 0
         THEN /\ lock' = c
              /\ rl_pc' = [rl_pc EXCEPT ![c] = "sleeping"]
              /\ rl_wake' = [rl_wake EXCEPT ![c] = monotonic + wait_time]
              /\ UNCHANGED <<last_acquire, rl_returns, rl_prev_return,
                             rl_last_return, rl_last_delay>>
         ELSE /\ last_acquire' = monotonic
              /\ RateReturn(c)
              /\ UNCHANGED <<lock, rl_wake>>
  /\ UNCHANGED <<rate_limit, interval, monotonic, rl_called>>
  /\ UNCHANGED notRate

\* http_client.py:21-23: the sleep is over; the clock is read again, the
\* acquisition recorded, the lock released
RateWake(c) ==
  /\ rl_pc[c] = "sleeping"
  /\ monotonic >= rl_wake[c]
  /\ last_acquire' = monotonic
  /\ lock' = 0
  /\ RateReturn(c)
  /\ UNCHANGED <<rate_limit, interval, monotonic, rl_wake, rl_called>>
  /\ UNCHANGED notRate

\* a second passes
RateTick ==
  /\ monotonic < MaxMonotonic
  /\ monotonic' = monotonic + 1
  /\ UNCHANGED <<rate_limit, interval, last_acquire, lock, rl_pc, rl_wake,
                 rl_called, rl_returns, rl_prev_return, rl_last_return,
                 rl_last_delay>>
  /\ UNCHANGED notRate

RateNext ==
  \/ \E c \in Callers : RateCall(c)
  \/ \E c \in Callers : RateEnter(c)
  \/ \E c \in Callers : RateWake(c)
  \/ RateTick

(***************************************************************************)
(* CurlParser.parse_curl_command (utils.py:31-77) on a command given as a  *)
(* sequence of characters.  A dict is a function from keys to values.      *)
(***************************************************************************)
SQ == "'"
DQ == "\""
BS == "\\"

\* utils.py:37, 42: the character class ['\"]
Quotes == {SQ, DQ}

\* the characters that \s matches and strip() removes
Whitespace == {" ", "\n", "\t"}

SetMin(S) == CHOOSE k \in S : \A j \in S : k <= j

\* the pattern occurs in str at position i
StartsWith(str, i, pat) ==
  /\ i + Len(pat) - 1 <= Len(str)
  /\ \A k \in 1..Len(pat) : str[i + k - 1] = pat[k]

\* first position from i on whose character is in S (not in S), or
\* Len(str) + 1
NextIn(str, i, S) ==
  LET ks == {k \in i..Len(str) : str[k] \in S}
  IN  IF ks = {} THEN Len(str) + 1 ELSE SetMin(ks)

NextNotIn(str, i, S) ==
  LET ks == {k \in i..Len(str) : str[k] \notin S}
  IN  IF ks = {} THEN Len(str) + 1 ELSE SetMin(ks)

EmptyDict == <<>>

\* d[key] = val of a Python dict
DictPut(d, key, val) ==
  [k \in DOMAIN d \cup {key} |-> IF k = key THEN val ELSE d[k]]

NoMatch == [ok |-> FALSE, g1 |-> <<>>, g2 |-> <<>>, end |-> 0]

\* utils.py:37: -H ['\"]([^:]+): ([^'\"]+)['\"] matched at position i.  The
\* first group runs to the first colon, the second one to the next quote
\* of either kind.
HeaderMatchAt(str, i) ==
  LET colon == NextIn(str, i + 4, {":"})
      close == NextIn(str, colon + 2, Quotes)
  IN  IF /\ StartsWith(str, i, <<"-", "H", " ">>)
         /\ i + 3 <= Len(str) /\ str[i + 3] \in Quotes
         /\ colon > i + 4 /\ colon + 1 <= Len(str) /\ str[colon + 1] = " "
         /\ close > colon + 2 /\ close <= Len(str)
      THEN [ok |-> TRUE, g1 |-> SubSeq(str, i + 4, colon - 1),
            g2 |-> SubSeq(str, colon + 2, close - 1), end |-> close]
      ELSE NoMatch

\* utils.py:37-38: re.findall from position i on, each match assigned to
\* headers_temp
RECURSIVE FindHeaders(_, _, _)
FindHeaders(str, i, d) ==
  IF i > Len(str) THEN d
  ELSE LET mt == HeaderMatchAt(str, i)
       IN  IF mt.ok THEN FindHeaders(str, mt.end + 1, DictPut(d, mt.g1, mt.g2))
           ELSE FindHeaders(str, i + 1, d)

\* utils.py:42: -b ['\"]([^'\"]+)['\"] matched at position i
CookieMatchAt(str, i) ==
  LET close == NextIn(str, i + 4, Quotes)
  IN  IF /\ StartsWith(str, i, <<"-", "b", " ">>)
         /\ i + 3 <= Len(str) /\ str[i + 3] \in Quotes
         /\ close > i + 4 /\ close <= Len(str)
      THEN [ok |-> TRUE, g1 |-> SubSeq(str, i + 4, close - 1), g2 |-> <<>>,
            end |-> close]
      ELSE NoMatch

\* utils.py:57: the alternatives of (?:--data-raw|--data|-d), in order
DataFlags ==
  << <<"-", "-", "d", "a", "t", "a", "-", "r", "a", "w">>,
     <<"-", "-", "d", "a", "t", "a">>,
     <<"-", "d">> >>

\* utils.py:57: (['\"])(.*?)\1 - the lazy group ends at the first
\* character equal to the opening quote
ClosingQuote(str, from, q) == NextIn(str, from, {q})

\* utils.py:57: alternative a of the flag, \s+, the opening quote, the
\* lazy group and the same quote again, matched at position i; g1 is the
\* quote, g2 the group
DataMatchWith(str, i, a) ==
  LET ws == i + Len(DataFlags[a])
      open == NextNotIn(str, ws, Whitespace)
      close == ClosingQuote(str, open + 1, str[open])
  IN  IF /\ StartsWith(str, i, DataFlags[a])
         /\ open > ws /\ open <= Len(str) /\ str[open] \in Quotes
         /\ close <= Len(str)
      THEN [ok |-> TRUE, g1 |-> <<str[open]>>,
            g2 |-> SubSeq(str, open + 1, close - 1), end |-> close]
      ELSE NoMatch

DataMatchAt(str, i) ==
  IF DataMatchWith(str, i, 1).ok THEN DataMatchWith(str, i, 1)
  ELSE IF DataMatchWith(str, i, 2).ok THEN DataMatchWith(str, i, 2)
  ELSE DataMatchWith(str, i, 3)

\* re.search: the match at the leftmost position where one exists
CookieSearch(str) ==
  LET ks == {k \in 1..Len(str) : CookieMatchAt(str, k).ok}
  IN  IF ks = {} THEN NoMatch ELSE CookieMatchAt(str, SetMin(ks))

DataSearch(str) ==
  LET ks == {k \in 1..Len(str) : DataMatchAt(str, k).ok}
  IN  IF ks = {} THEN NoMatch ELSE DataMatchAt(str, SetMin(ks))

\* str.lower() on the letters that occur in the commands
Lower(str) ==
  [k \in 1..Len(str) |->
     CASE str[k] = "C" -> "c"
       [] str[k] = "F" -> "f"
       [] str[k] = "X" -> "x"
       [] OTHER -> str[k]]

\* str.strip()
Strip(str) ==
  LET ks == {k \in 1..Len(str) : str[k] \notin Whitespace}
  IN  IF ks = {} THEN <<>>
      ELSE SubSeq(str, SetMin(ks), CHOOSE k \in ks : \A j \in ks : j <= k)

\* first position from i on at which the pattern occurs, or 0
Find(str, i, pat) ==
  LET ks == {k \in i..Len(str) : StartsWith(str, k, pat)}
  IN  IF ks = {} THEN 0 ELSE SetMin(ks)

\* str.split(sep) as a sequence of pieces
RECURSIVE Split(_, _)
Split(str, sep) ==
  LET k == Find(str, 1, sep)
  IN  IF k = 0 THEN <<str>>
      ELSE <<SubSeq(str, 1, k - 1)>>
             \o Split(SubSeq(str, k + Len(sep), Len(str)), sep)

\* str.replace(old, new)
RECURSIVE Replace(_, _, _)
Replace(str, old, new) ==
  LET k == Find(str, 1, old)
  IN  IF k = 0 THEN str
      ELSE SubSeq(str, 1, k - 1) \o new
             \o Replace(SubSeq(str, k + Len(old), Len(str)), old, new)

\* utils.py:45-49: the cookies of a cookie string
RECURSIVE CookiesOf(_, _, _)
CookiesOf(pieces, k, d) ==
  IF k > Len(pieces) THEN d
  ELSE LET eq == Find(pieces[k], 1, <<"=">>)
       IN  IF eq = 0 THEN CookiesOf(pieces, k + 1, d)
           ELSE CookiesOf(pieces, k + 1,
                  DictPut(d, Strip(SubSeq(pieces[k], 1, eq - 1)),
                          Strip(SubSeq(pieces[k], eq + 1, Len(pieces[k])))))

Digits == <<"0", "1", "2", "3", "4", "5", "6", "7", "8", "9">>

DigitValue(c) == (CHOOSE k \in 1..10 : Digits[k] = c) - 1

\* json.loads raised JSONDecodeError
DecodeError == [ok |-> FALSE, value |-> <<>>]

Decoded(d) == [ok |-> TRUE, value |-> d]

\* json.loads on the texts that reach it here: an object written without
\* blanks, whose members are "key":digit with a key free of quotes and
\* backslashes; every other text of the commands - a text the match cut
\* short ends in a backslash - makes json.loads raise JSONDecodeError
RECURSIVE JsonMembers(_, _, _)
JsonMembers(str, i, d) ==
  LET close == NextIn(str, i + 1, {DQ, BS})
  IN  IF /\ i <= Len(str) /\ str[i] = DQ
         /\ close > i + 1 /\ close + 3 <= Len(str)
         /\ str[close] = DQ /\ str[close + 1] = ":"
         /\ str[close + 2] \in {Digits[k] : k \in 1..10}
      THEN LET d2 == DictPut(d, SubSeq(str, i + 1, close - 1),
                             DigitValue(str[close + 2]))
           IN  IF str[close + 3] = "}" /\ close + 3 = Len(str)
               THEN Decoded(d2)
               ELSE IF str[close + 3] = "," THEN JsonMembers(str, close + 4, d2)
               ELSE DecodeError
      ELSE DecodeError

json_loads(str) ==
  IF str = <<"{", "}">> THEN Decoded(EmptyDict)
  ELSE IF Len(str) > 2 /\ str[1] = "{" THEN JsonMembers(str, 2, EmptyDict)
  ELSE DecodeError

\* utils.py:59-74: the body of a match of the data pattern
DataOf(mt) ==
  LET raw == IF mt.g1 = <<DQ>> THEN Replace(mt.g2, <<BS, DQ>>, <<DQ>>)
             ELSE mt.g2
      decoded == json_loads(Strip(raw))
  IN  IF decoded.ok THEN decoded.value ELSE EmptyDict

\* utils.py:41: the value of the first header named cookie, or ""
CookieHeader(d) ==
  LET ks == {k \in DOMAIN d : Lower(k) = <<"c", "o", "o", "k", "i", "e">>}
  IN  IF ks = {} THEN <<>> ELSE d[CHOOSE k \in ks : TRUE]

\* utils.py:33-76
parse_curl_command(str) ==
  LET headers_temp == FindHeaders(str, 1, EmptyDict)
      cookie_b == CookieSearch(str)
      cookie_string == IF cookie_b.ok THEN cookie_b.g1
                       ELSE CookieHeader(headers_temp)
      data_match == DataSearch(str)
  IN  [headers |->
         [k \in {h \in DOMAIN headers_temp :
                   Lower(h) # <<"c", "o", "o", "k", "i", "e">>}
            |-> headers_temp[k]],
       cookies |->
         IF cookie_string # <<>>
         THEN CookiesOf(Split(cookie_string, <<";", " ">>), 1, EmptyDict)
         ELSE EmptyDict,
       request_data |->
         IF data_match.ok THEN DataOf(data_match) ELSE EmptyDict]

\* names and values the commands are made of
PairNames == <<"x", "y", "z", "w">>
CookieNames == <<"a", "b", "c", "d">>

HeaderLines ==
  {[name |-> <<"X", "-", "F", "o", "o">>, value |-> <<"b", "a", "r">>],
   [name |-> <<"A">>, value |-> <<"b">>]}

\* the cookie string "a=1; b=2; ..." of n cookies
RECURSIVE CookieText(_)
CookieText(n) ==
  IF n = 0 THEN <<>>
  ELSE (IF n = 1 THEN <<>> ELSE CookieText(n - 1) \o <<";", " ">>)
         \o <<CookieNames[n], "=", Digits[n + 1]>>

\* the JSON text {"x":1,"y":2,...} of n members
RECURSIVE MembersText(_)
MembersText(n) ==
  IF n = 0 THEN <<>>
  ELSE (IF n = 1 THEN <<>> ELSE MembersText(n - 1) \o <<",">>)
         \o <<DQ, PairNames[n], DQ, ":", Digits[n + 1]>>

BodyText(n) == <<"{">> \o MembersText(n) \o <<"}">>

\* the text as it stands between quotes q on a command line: inside
\* double quotes every double quote is escaped by a backslash
Quoted(text, q) ==
  <<q>> \o (IF q = DQ THEN Replace(text, <<DQ>>, <<BS, DQ>>) ELSE text)
        \o <<q>>

\* curl -H <header> -b <cookies> <flag> <body>
CommandText(q, line, ncookies, flag, nmembers) ==
  <<"c", "u", "r", "l", " ", "-", "H", " ">>
    \o Quoted(line.name \o <<":", " ">> \o line.value, q.h)
    \o <<" ", "-", "b", " ">> \o Quoted(CookieText(ncookies), q.b)
    \o <<" ">> \o DataFlags[flag] \o <<" ">>
    \o Quoted(BodyText(nmembers), q.d)

\* what such a command stands for
GivenBy(line, ncookies, nmembers) ==
  [headers |-> [k \in {line.name} |-> line.value],
   cookies |-> [k \in {<<CookieNames[j]>> : j \in 1..ncookies}
                  |-> <<Digits[(CHOOSE j \in 1..ncookies :
                                  k = <<CookieNames[j]>>) + 1]>>],
   request_data |-> [k \in {<<PairNames[j]>> : j \in 1..nmembers}
                       |-> CHOOSE j \in 1..nmembers : k = <<PairNames[j]>>]]

\* session.py:139-165: the text of a captured command has been loaded
CurlInit ==
  /\ c_pc = "given"
  /\ c_quotes \in [{"h", "b", "d"} -> Quotes]
  /\ \E line \in HeaderLines, ncookies \in 1..MaxPairs,
        flag \in 1..3, nmembers \in 0..MaxPairs :
       /\ c_command = CommandText(c_quotes, line, ncookies, flag, nmembers)
       /\ c_given = GivenBy(line, ncookies, nmembers)
  /\ c_result = [headers |-> EmptyDict, cookies |-> EmptyDict,
                 request_data |-> EmptyDict]

\* session.py:169: the command is parsed
ParseCommand ==
  /\ c_pc = "given"
  /\ c_result' = parse_curl_command(c_command)
  /\ c_pc' = "parsed"
  /\ UNCHANGED <<c_command, c_quotes, c_given>>
  /\ UNCHANGED notCurl

CurlNext == ParseCommand

(***************************************************************************)
(* _extract_credited (session.py:449-475).  A JSON object is the sequence  *)
(* of its members in the order of the document; a member has a key and a   *)
(* value that is a number, a string, an object or an array holding one     *)
(* object (sub: the members of that object).                               *)
(***************************************************************************)
\* session.py:452-463: the keys looked for, in this order
CreditKeys ==
  <<"addTime", "add_time", "readTime", "read_time", "time", "duration",
    "inc", "increase", "added", "addedTime">>

Member(k, kind, n, sub) == [key |-> k, kind |-> kind, num |-> n, sub |-> sub]

\* the value None, and an integer found
NotFound == [found |-> FALSE, value |-> 0]
Found(n) == [found |-> TRUE, value |-> n]

\* session.py:465: k in obj and isinstance(obj[k], (int, float))
HasNumber(obj, k) ==
  \E i \in DOMAIN obj : obj[i].key = k /\ obj[i].kind = "num"

\* obj[k]
NumberAt(obj, k) ==
  obj[CHOOSE i \in DOMAIN obj : obj[i].key = k /\ obj[i].kind = "num"].num

\* session.py:468: isinstance(v, dict)
Descends(kind) == kind = "dict"

RECURSIVE extract_credited(_)
RECURSIVE SearchValues(_, _)

\* session.py:467-471: the values of obj from the i-th on, in order
SearchValues(obj, i) ==
  IF i > Len(obj) THEN NotFound
  ELSE IF Descends(obj[i].kind)
       THEN LET found == extract_credited(obj[i].sub)
            IN  IF found.found THEN found ELSE SearchValues(obj, i + 1)
       ELSE SearchValues(obj, i + 1)

\* session.py:449-472
extract_credited(obj) ==
  LET hits == {j \in DOMAIN CreditKeys : HasNumber(obj, CreditKeys[j])}
  IN  IF hits # {}
      THEN Found(NumberAt(obj, CreditKeys[SetMin(hits)]))
      ELSE SearchValues(obj, 1)

\* session.py:474-475
CreditedFor(response, rtv) ==
  LET extracted == extract_credited(response)
  IN  Credited(extracted.found, extracted.value, rtv)

\* members without members of their own: two keys of the list with
\* different numbers, and a key that is not in the list
Leaves ==
  {Member("addTime", "num", 60, <<>>), Member("time", "num", 5, <<>>),
   Member("time", "str", 0, <<>>), Member("msg", "str", 0, <<>>)}

\* the objects of at most MaxKeys members, with distinct keys, drawn from M
Objects(M) ==
  {obj \in UNION {[1..n -> M] : n \in 0..MaxKeys} :
     \A i, j \in DOMAIN obj : i # j => obj[i].key # obj[j].key}

\* members of the response: leaves, an object under "data", an array of
\* one object under "items"
ResponseMembers ==
  Leaves
  \cup {Member("data", "dict", 0, sub) : sub \in Objects(Leaves)}
  \cup {Member("items", "list", 0, sub) : sub \in Objects(Leaves)}

Responses == Objects(ResponseMembers)

\* an accepting response has been decoded
ExtractInit ==
  /\ x_pc = "given"
  /\ x_response \in Responses
  /\ x_rt \in {30, 360}
  /\ x_credited = 0

\* session.py:474-475
ExtractCredited ==
  /\ x_pc = "given"
  /\ x_credited' = CreditedFor(x_response, x_rt)
  /\ x_pc' = "extracted"
  /\ UNCHANGED <<x_response, x_rt>>
  /\ UNCHANGED notExtract

ExtractNext == ExtractCredited

(***************************************************************************)
(* SmartReadingManager (reading.py).  A Python list is an object: lists    *)
(* holds the content of every list object, and a field that holds a list   *)
(* holds the number of the object (0: an empty list of its own).  A dict   *)
(* is the sequence of its items in insertion order.                        *)
(***************************************************************************)
Managers == 1..NumManagers

Modes == {"sequential", "pure_random", "smart_random"}

\* the catalogs of the configurations: no book, or two books
Catalogs ==
  {<<>>,
   <<[id |-> "b1", chapters |-> <<"c1", "c2">>],
     [id |-> "b2", chapters |-> <<"c3">>]>>}

\* chapter_index of the configured chapter_infos: none, or one for "c2"
IndexMaps == {{}, {<<"c2", 7>>}}

\* None as a chapter index
NoIndex == -1

\* the positions a captured profile can carry
CurlBooks == {"", "b1", "b9"}
CurlChapters == {"", "c2", "c9"}

\* the ci a captured profile may carry for its chapter
CurlCis == {NoIndex, 5}

\* time.time() when the managers are built, seconds
ClockStart == 1000

\* config.py:40: smart_random.book_switch_cooldown, seconds
Cooldown == 300

\* seconds between two calls of get_next_reading_position: within the
\* cooldown, or beyond it
ShortStep == 60
LongStep == 400

\* callers that leave more than the cooldown between two calls, and whose
\* profile carries a chapter and no ci
SpacedCalls ==
  [clock_steps |-> {LongStep}, curl_cis |-> {NoIndex},
   positions |-> {p \in CurlBooks \X CurlChapters :
                    p[2] # "" /\ (p[1] = "" => p[2] = "c2")}]

\* callers that call at any of the two distances, with any profile
AnyCalls ==
  [clock_steps |-> {ShortStep, LongStep}, curl_cis |-> CurlCis,
   positions |-> CurlBooks \X CurlChapters]

\* no profile position was handed to the manager
NoProfile == [b |-> "", c |-> "", ci |-> NoIndex]

ListOf(ls, r) == IF r = 0 THEN <<>> ELSE ls[r]

\* book_id in self.book_chapters_map
HasBook(map, b) == \E k \in DOMAIN map : map[k].id = b

\* list(self.book_chapters_map.keys()).index(book_id), 1-based
BookIndex(map, b) == CHOOSE k \in DOMAIN map : map[k].id = b

\* self.book_chapters_map[book_id]
ChaptersRef(map, b) == map[BookIndex(map, b)].chapters

\* chapters.index(chapter_id), 0-based
IndexOf(chs, c) == SetMin({k \in DOMAIN chs : chs[k] = c}) - 1

\* the catalog a dict of list objects stands for
CatalogOf(ls, map) ==
  [k \in DOMAIN map |-> [id |-> map[k].id, chapters |-> ls[map[k].chapters]]]

\* reading.py:10-26
NewManager(bs, idx) ==
  [book_chapters_map |-> bs,
   chapter_index_map |-> idx,
   current_book_id |-> "",
   current_chapter_id |-> "",
   current_book_chapters |-> 0,
   current_chapter_index |-> 0,
   current_chapter_ci |-> NoIndex,
   last_book_switch_time |-> 0]

\* reading.py:28-42: configured index, then the ci of the profile, then
\* the place of the chapter in current_book_chapters, else None
get_chapter_index(ls, rm, c, curl_ci) ==
  LET chs == ListOf(ls, rm.current_book_chapters)
  IN  IF \E e \in rm.chapter_index_map : e[1] = c
      THEN (CHOOSE e \in rm.chapter_index_map : e[1] = c)[2]
      ELSE IF curl_ci # NoIndex THEN curl_ci
      ELSE IF \E k \in DOMAIN chs : chs[k] = c THEN IndexOf(chs, c)
      ELSE NoIndex

\* rm with current_chapter_ci resolved for its current chapter
WithIndex(ls, rm, curl_ci) ==
  [rm EXCEPT !.current_chapter_ci =
               get_chapter_index(ls, rm, rm.current_chapter_id, curl_ci)]

\* the book id that stays the current one although the chapters change
BookKept(old, new) == old

\* reading.py:152: self.current_book_id = book_id
BookSwitched(old, new) == new

\* reading.py:150-157
switch_to_book(ls, rm, b) ==
  IF HasBook(rm.book_chapters_map, b)
  THEN LET r == ChaptersRef(rm.book_chapters_map, b)
       IN  WithIndex(ls,
             [rm EXCEPT !.current_book_id =
                          BookSwitched(rm.current_book_id, b),
                       !.current_book_chapters = r,
                       !.current_chapter_index = 0,
                       !.current_chapter_id = ListOf(ls, r)[1]],
             NoIndex)
  ELSE rm

\* the book after the last one is the last one again
NextBookStays(i, n) == i

\* reading.py:182: next_book_index, 0-based
NextBookIndex(i, n) == (i + 1) % n

\* reading.py:174-191
next_chapter(ls, rm) ==
  LET chs == ListOf(ls, rm.current_book_chapters)
      idx == rm.current_chapter_index + 1
      map == rm.book_chapters_map
  IN  IF chs = <<>> THEN rm
      ELSE IF idx >= Len(chs)
      THEN IF HasBook(map, rm.current_book_id)
           THEN switch_to_book(ls,
                  [rm EXCEPT !.current_chapter_index = idx],
                  map[NextBookIndex(BookIndex(map, rm.current_book_id) - 1,
                                    Len(map)) + 1].id)
           ELSE switch_to_book(ls,
                  [rm EXCEPT !.current_chapter_index = idx], map[1].id)
      ELSE WithIndex(ls,
             [rm EXCEPT !.current_chapter_index = idx,
                        !.current_chapter_id = chs[idx + 1]],
             NoIndex)

\* reading.py:207: a current position exists
HasPosition(ls, rm) ==
  rm.current_book_id # "" /\ ListOf(ls, rm.current_book_chapters) # <<>>

\* the fallback is taken whether or not the configuration permits it
FallBackAlways(fb, rm) == rm.book_chapters_map # <<>>

\* reading.py:195: fallback to the first configured book is possible
CanFallBack(fb, rm) == fb /\ rm.book_chapters_map # <<>>

\* reading.py:193-209: the manager after ensure_initialized
ensure_initialized(ls, fb, rm) ==
  IF HasPosition(ls, rm) THEN rm
  ELSE IF CanFallBack(fb, rm)
  THEN switch_to_book(ls, rm, rm.book_chapters_map[1].id)
  ELSE rm

\* session.py:115 for every user: the managers are built from the one
\* configuration that was loaded
SelInit ==
  /\ mode \in Modes
  /\ fallback_to_config \in BOOLEAN
  /\ \E cat \in Catalogs :
       /\ lists = [k \in DOMAIN cat |-> cat[k].chapters]
       /\ books = [k \in DOMAIN cat |-> [id |-> cat[k].id, chapters |-> k]]
       /\ books_at_start = cat
  /\ \E idx \in IndexMaps :
       reading_manager = [m \in Managers |-> NewManager(books, idx)]
  /\ adopts_left \in {[m \in Managers |-> 1],
                      [m \in Managers |-> IF m = 1 THEN 1 ELSE 0]}
  /\ calls_left = [m \in Managers |-> IF m = 1 THEN MaxCalls ELSE 0]
  /\ returned = [m \in Managers |-> <<>>]
  /\ last_op = [manager |-> 0, method |-> "none"]
  /\ book_switch_cooldown = Cooldown
  /\ clock = ClockStart
  /\ profile = [m \in Managers |-> NoProfile]
  /\ switched_to = ""
  /\ callers \in {SpacedCalls, AnyCalls}
  /\ session_phase \in {[m \in Managers |-> "none"],
                        [m \in Managers |->
                           IF m = 1 THEN "constructed" ELSE "none"]}

\* only a missing book id makes the call a no-op
MissingBook(b, c) == b = ""

\* reading.py:46: "if not book_id or not chapter_id"
MissingId(b, c) == b = "" \/ c = ""

\* reading.py:44-81: set_curl_data(book_id, chapter_id) of manager m, as
\* session.py:196 calls it (no curl_ci)
SetCurlData(m) ==
  /\ adopts_left[m] > 0
  /\ session_phase[m] \in {"none", "constructed"}
  /\ adopts_left' = [adopts_left EXCEPT ![m] = @ - 1]
  /\ last_op' = [manager |-> m, method |-> "set_curl_data"]
  /\ switched_to' = ""
  /\ \E p \in callers.positions, ci \in callers.curl_cis :
       LET b == p[1]
           c == p[2]
           rm == reading_manager[m]
           map == rm.book_chapters_map
       IN  /\ profile' = [profile EXCEPT ![m] = [b |-> b, c |-> c, ci |-> ci]]
           /\ IF MissingId(b, c)
              THEN UNCHANGED <<lists, reading_manager, returned>>
              ELSE
                /\ returned' = [returned EXCEPT ![m] = <<>>]
                /\ IF HasBook(map, b)
                   THEN LET r == ChaptersRef(map, b)
                        IN  IF \E k \in DOMAIN lists[r] : lists[r][k] = c
                            THEN /\ reading_manager' =
                                      [reading_manager EXCEPT ![m] =
                                         WithIndex(lists,
                                           [rm EXCEPT
                                              !.current_book_id = b,
                                              !.current_chapter_id = c,
                                              !.current_book_chapters = r,
                                              !.current_chapter_index =
                                                 IndexOf(lists[r], c)],
                                           NoIndex)]
                                 /\ UNCHANGED lists
                            ELSE /\ lists' =
                                      [lists EXCEPT ![r] = Append(@, c)]
                                 /\ reading_manager' =
                                      [reading_manager EXCEPT ![m] =
                                         WithIndex(lists',
                                           [rm EXCEPT
                                              !.current_book_id = b,
                                              !.current_chapter_id = c,
                                              !.current_book_chapters = r,
                                              !.current_chapter_index =
                                                 Len(lists[r])],
                                           NoIndex)]
                   ELSE /\ lists' = lists \o << <<c>>, <<c>> >>
                        /\ reading_manager' =
                             [reading_manager EXCEPT ![m] =
                                WithIndex(lists',
                                  [rm EXCEPT
                                     !.book_chapters_map =
                                        Append(map,
                                               [id |-> b,
                                                chapters |-> Len(lists) + 1]),
                                     !.current_book_id = b,
                                     !.current_chapter_id = c,
                                     !.current_book_chapters = Len(lists) + 2,
                                     !.current_chapter_index = 0],
                                  NoIndex)]
  /\ UNCHANGED <<mode, fallback_to_config, books, calls_left, books_at_start,
                 book_switch_cooldown, clock, session_phase, callers>>
  /\ UNCHANGED notSel

\* reading.py:205-209: what ensure_initialized returns
EnsureResult(ls, fb, rm) == HasPosition(ls, rm) \/ CanFallBack(fb, rm)

\* session.py:233-241: start_reading_session of the session that owns
\* manager m calls ensure_initialized and raises FatalSessionError when it
\* returns False
StartReadingSession(m) ==
  /\ session_phase[m] = "constructed"
  /\ reading_manager' =
       [reading_manager EXCEPT
          ![m] = ensure_initialized(lists, fallback_to_config, @)]
  /\ session_phase' =
       [session_phase EXCEPT
          ![m] = IF EnsureResult(lists, fallback_to_config, reading_manager[m])
                 THEN "ready" ELSE "fatal"]
  /\ last_op' = [manager |-> m, method |-> "ensure_initialized"]
  /\ switched_to' = ""
  /\ UNCHANGED <<mode, fallback_to_config, lists, books, adopts_left,
                 calls_left, book_switch_cooldown, clock, callers, returned,
                 books_at_start, profile>>
  /\ UNCHANGED notSel

\* get_next_reading_position of manager m returns the position of rm
Return(m, rm) ==
  /\ reading_manager' = [reading_manager EXCEPT ![m] = rm]
  /\ returned' = [returned EXCEPT
                    ![m] = Append(@, <<rm.current_book_id,
                                       rm.current_chapter_id>>)]
  /\ calls_left' = [calls_left EXCEPT ![m] = @ - 1]
  /\ last_op' = [manager |-> m, method |-> "get_next"]
  /\ UNCHANGED <<mode, fallback_to_config, lists, books, adopts_left,
                 books_at_start, book_switch_cooldown, session_phase,
                 callers, profile>>
  /\ UNCHANGED notSel

\* reading.py:85-86: no position and no fallback, RuntimeError
GetNextRaises(m) ==
  /\ calls_left[m] > 0
  /\ session_phase[m] \in {"none", "ready"}
  /\ ~HasPosition(lists, reading_manager[m])
  /\ ~CanFallBack(fallback_to_config, reading_manager[m])
  /\ calls_left' = [calls_left EXCEPT ![m] = @ - 1]
  /\ last_op' = [manager |-> m, method |-> "get_next_raised"]
  /\ switched_to' = ""
  /\ UNCHANGED <<mode, fallback_to_config, lists, books, reading_manager,
                 adopts_left, returned, books_at_start, book_switch_cooldown,
                 clock, session_phase, callers, profile>>
  /\ UNCHANGED notSel

\* get_next_reading_position gets past ensure_initialized
CanGetNext(m) ==
  /\ calls_left[m] > 0
  /\ session_phase[m] \in {"none", "ready"}
  /\ \/ HasPosition(lists, reading_manager[m])
     \/ CanFallBack(fallback_to_config, reading_manager[m])

\* reading.py:83-94, 159-161: sequential mode
SequentialPosition(m) ==
  /\ mode = "sequential"
  /\ CanGetNext(m)
  /\ UNCHANGED clock
  /\ switched_to' = ""
  /\ Return(m, next_chapter(lists,
                 ensure_initialized(lists, fallback_to_config,
                                    reading_manager[m])))

\* reading.py:83-94, 163-172: pure_random mode
PureRandomPosition(m) ==
  /\ mode = "pure_random"
  /\ CanGetNext(m)
  /\ UNCHANGED clock
  /\ switched_to' = ""
  /\ LET rm == ensure_initialized(lists, fallback_to_config,
                                  reading_manager[m])
         map == rm.book_chapters_map
     IN  \E k \in DOMAIN map : \E j \in DOMAIN lists[map[k].chapters] :
           Return(m, [rm EXCEPT
                        !.current_book_id = map[k].id,
                        !.current_chapter_id = lists[map[k].chapters][j],
                        !.current_book_chapters = map[k].chapters])

\* the cooldown is not looked at
CooldownIgnored(current_time, last, cooldown) == TRUE

\* reading.py:127: the cooldown since the last recorded switch is over
CooldownElapsed(current_time, last, cooldown) ==
  current_time - last > cooldown

\* the current book may be drawn again
AllBooks(map, b) == DOMAIN map

\* reading.py:132: the places in the catalog of the books other than b
OtherBooks(map, b) == {k \in DOMAIN map : map[k].id # b}

\* reading.py:83-94, 96-148: smart_random mode.  After ensure_initialized
\* the test of line 103 is false.  draw_switch and draw_skip are the
\* outcomes of the two comparisons of random.random().
SmartRandomPosition(m) ==
  /\ mode = "smart_random"
  /\ CanGetNext(m)
  /\ \E step \in callers.clock_steps,
        draw_switch \in BOOLEAN, draw_skip \in BOOLEAN :
       LET rm0 == ensure_initialized(lists, fallback_to_config,
                                     reading_manager[m])
           map == rm0.book_chapters_map
           current_time == clock + step
           should_switch_book ==
             /\ CooldownElapsed(current_time, rm0.last_book_switch_time,
                                book_switch_cooldown)
             /\ draw_switch
       IN  /\ clock' = current_time
           /\ \E k \in IF should_switch_book /\ Len(map) > 1
                        THEN OtherBooks(map, rm0.current_book_id) ELSE {0} :
                LET rm1 == IF k = 0 THEN rm0
                           ELSE [switch_to_book(lists, rm0, map[k].id)
                                   EXCEPT !.last_book_switch_time =
                                             current_time]
                    chs == ListOf(lists, rm1.current_book_chapters)
                IN  /\ switched_to' = IF k = 0 THEN "" ELSE map[k].id
                    /\ IF draw_skip /\ Len(chs) > 1
                       THEN \E i \in 0..(Len(chs) - 1) :
                              Return(m, WithIndex(lists,
                                          [rm1 EXCEPT
                                             !.current_chapter_index = i,
                                             !.current_chapter_id = chs[i + 1]],
                                          NoIndex))
                       ELSE Return(m, next_chapter(lists, rm1))

SelNext ==
  \/ \E m \in Managers : SetCurlData(m)
  \/ \E m \in Managers : GetNextRaises(m)
  \/ \E m \in Managers : SequentialPosition(m)
  \/ \E m \in Managers : PureRandomPosition(m)
  \/ \E m \in Managers : SmartRandomPosition(m)

(***************************************************************************)
(* HttpClient._request_with_retries (http_client.py:43-65).                *)
(***************************************************************************)
\* what a post can meet: a 2xx response, a response of another status
\* (raise_for_status raises), a failure of the transport
Answers == {"2xx", "status", "transport"}

\* the exception of attempt k (0-based) that met answer a
ErrorOf(k, a) == [attempt |-> k, kind |-> a]

\* no exception
NoError == [attempt |-> -1, kind |-> "none"]

\* http_client.py:44
Attempts(r) == Max(1, r)

\* every failed attempt is followed by the backoff sleep
SleepsAfterEveryFailure(k, n) == TRUE

\* http_client.py:59: the backoff sleep follows a failed attempt that is
\* not the last one
SleepsAfterFailure(k, n) == k < n - 1

HttpInit ==
  /\ retry_times \in -1..MaxRetries
  /\ post_pc = "idle"
  /\ attempts = 0
  /\ attempt = 0
  /\ last_error = NoError
  /\ request_times = 0
  /\ posts_left = MaxPosts
  /\ slots = 0
  /\ tries = <<>>
  /\ sleeps = 0
  /\ raised = NoError

\* http_client.py:43-47: a post begins
RequestWithRetries ==
  /\ post_pc \in {"idle", "returned", "raised"}
  /\ posts_left > 0
  /\ posts_left' = posts_left - 1
  /\ attempts' = Attempts(retry_times)
  /\ attempt' = 0
  /\ last_error' = NoError
  /\ post_pc' = "acquire"
  /\ slots' = 0
  /\ tries' = <<>>
  /\ sleeps' = 0
  /\ raised' = NoError
  /\ UNCHANGED <<retry_times, request_times>>
  /\ UNCHANGED notHttp

\* http_client.py:50: await self._rate_limiter.acquire()
AcquireRateSlot ==
  /\ post_pc = "acquire"
  /\ slots' = slots + 1
  /\ post_pc' = "post"
  /\ UNCHANGED <<retry_times, attempts, attempt, last_error, request_times,
                 posts_left, tries, sleeps, raised>>
  /\ UNCHANGED notHttp

\* http_client.py:51-62: the post is sent and answered; a 2xx response is
\* returned, anything else is an exception that is kept as last_error and
\* followed by the sleep or by the end of the loop and the raise of line 65
SendPost ==
  /\ post_pc = "post"
  /\ \E a \in Answers :
       /\ tries' = Append(tries, a)
       /\ request_times' = request_times + 1
       /\ IF a = "2xx"
          THEN /\ post_pc' = "returned"
               /\ UNCHANGED <<last_error, raised>>
          ELSE /\ last_error' = ErrorOf(attempt, a)
               /\ IF SleepsAfterFailure(attempt, attempts)
                  THEN post_pc' = "sleep" /\ UNCHANGED raised
                  ELSE post_pc' = "raised" /\ raised' = last_error'
  /\ UNCHANGED <<retry_times, attempts, attempt, posts_left, slots, sleeps>>
  /\ UNCHANGED notHttp

\* http_client.py:60, 47, 65: the sleep of one second, then the next turn
\* of the loop, or the raise when the loop is over
BackoffSleep ==
  /\ post_pc = "sleep"
  /\ sleeps' = sleeps + 1
  /\ attempt' = attempt + 1
  /\ IF attempt + 1 < attempts
     THEN post_pc' = "acquire" /\ UNCHANGED raised
     ELSE post_pc' = "raised" /\ raised' = last_error
  /\ UNCHANGED <<retry_times, attempts, last_error, request_times,
                 posts_left, slots, tries>>
  /\ UNCHANGED notHttp

HttpNext ==
  \/ RequestWithRetries
  \/ AcquireRateSlot
  \/ SendPost
  \/ BackoffSleep

(***************************************************************************)
(* WeReadSessionManager._refresh_cookie (session.py:662-697).  The         *)
(* Set-Cookie header is the sequence of the pieces that split(",") makes   *)
(* of it; of each piece the text before the first ";" is kept: a           *)
(* name=value pair, or text without "=" (the rest of a date).              *)
(***************************************************************************)
SessionCookies == {"wr_skey", "wr_vid"}

\* str(name): the name contains the text "wr_skey"
MentionsSkey(name) == name \in {"wr_skey", "wr_skey_ts"}

\* the pieces a Set-Cookie header is made of
Pieces ==
  {[eq |-> TRUE, name |-> "wr_skey", value |-> "new"],
   [eq |-> TRUE, name |-> "wr_skey", value |-> ""],
   [eq |-> TRUE, name |-> "wr_skey_ts", value |-> "17"],
   [eq |-> TRUE, name |-> "wr_vid", value |-> "v2"],
   [eq |-> FALSE, name |-> "GMT", value |-> ""]}

SetCookies == UNION {[1..n -> Pieces] : n \in 0..MaxPieces}

\* what the renewal post can meet: a failure of the transport, or a
\* response with its cookie jar (the wr_skey it holds, "" for none) and
\* its Set-Cookie header
RenewResponses ==
  {[raises |-> TRUE, jar |-> "", set_cookie |-> <<>>]}
  \cup [raises : {FALSE}, jar : {"", "jar"}, set_cookie : SetCookies]

\* session.py:678-683: the first piece that mentions wr_skey, 0 for none
SkeyPiece(h) ==
  IF \E k \in DOMAIN h : MentionsSkey(h[k].name)
  THEN SetMin({k \in DOMAIN h : MentionsSkey(h[k].name)})
  ELSE 0

\* session.py:674-683: new_skey after the jar and the header were looked at
NewSkey(r) ==
  IF r.jar # "" THEN r.jar
  ELSE LET h == r.set_cookie
           k == SkeyPiece(h)
       IN  IF k = 0 \/ ~h[k].eq THEN "" ELSE h[k].value

RenewInit ==
  /\ cookies \in [SessionCookies -> {Absent, "old"}]
  /\ renew_response = [raises |-> TRUE, jar |-> "", set_cookie |-> <<>>]
  /\ renew_result = FALSE
  /\ renewals_left = MaxRenewals

\* session.py:662-697
RefreshCookie ==
  /\ renewals_left > 0
  /\ renewals_left' = renewals_left - 1
  /\ \E r \in RenewResponses :
       /\ renew_response' = r
       /\ IF r.raises \/ NewSkey(r) = ""
          THEN /\ renew_result' = FALSE
               /\ UNCHANGED cookies
          ELSE /\ renew_result' = TRUE
               /\ cookies' = [cookies EXCEPT !["wr_skey"] = NewSkey(r)]
  /\ UNCHANGED notRenew

RenewNext == RefreshCookie

(***************************************************************************)
(* _run_single_user_session (app.py:198-231).  In the registry the         *)
(* controller of the single user is SingleUser.                            *)
(***************************************************************************)
SingleUser == 0

\* the controller stays registered when its session did not complete
RegistryAfterSuccess(ms, c, how) == IF how = "completed" THEN ms \ {c} ELSE ms

\* app.py:230-231, 274-275: the finally clause discards the controller
\* however the session ended
RegistryAfterExit(ms, c, how) == ms \ {c}

\* what the steps of the application leave alone beside its own state
besideApp ==
  <<sessionVars, hashVars, rateVars, curlVars, selVars, extractVars,
    httpVars, renewVars>>

\* the state of a multi-user run without the registry
multiButManagers ==
  <<profile_ok, max_concurrent_users, shutdown_requested, permits, task,
    task_result, done_order, collector, collected, successful_users,
    failed_users, startup_mode, session_end, notified>>

\* app.py:183-196, 200: run_single_session of a configuration without
\* users has called _run_single_user_session
SingleInit ==
  /\ users_configured = FALSE
  /\ single_profile_ok \in BOOLEAN
  /\ single_pc = "called"
  /\ single_end = "none"

\* app.py:201-203, 218-229: the controller is constructed and registered;
\* an exception of the constructor is caught, reported, and leaves
\* session_manager None, so that the finally clause discards nothing
SingleConstruct ==
  /\ single_pc = "called"
  /\ IF single_profile_ok
     THEN /\ managers' = managers \cup {SingleUser}
          /\ single_pc' = "running"
          /\ UNCHANGED single_end
     ELSE /\ single_pc' = "done"
          /\ single_end' = "not_constructed"
          /\ UNCHANGED managers
  /\ UNCHANGED <<users_configured, single_profile_ok>>
  /\ UNCHANGED <<multiButManagers, besideApp, daemonVars>>

\* app.py:205-231: start_reading_session returns or raises; the statistics
\* or the error are handed on; the finally clause discards the controller
SingleSessionEnds ==
  /\ single_pc = "running"
  /\ \E how \in {"completed", "fatal", "error"} :
       /\ single_end' = how
       /\ managers' = RegistryAfterExit(managers, SingleUser, how)
  /\ single_pc' = "done"
  /\ UNCHANGED <<users_configured, single_profile_ok>>
  /\ UNCHANGED <<multiButManagers, besideApp, daemonVars>>

SingleNext == SingleConstruct \/ SingleSessionEnds

(***************************************************************************)
(* _run_daemon_mode (app.py:124-167) and _wait_until_next_day              *)
(* (app.py:169-181).  A round is one call of run_single_session, seen      *)
(* through the way it ends.                                                *)
(***************************************************************************)
Dates == 0..MaxDays

\* None as a date
NoDate == -1

\* the state of a multi-user run without the shutdown flag
multiButShutdown ==
  <<profile_ok, max_concurrent_users, permits, managers, task, task_result,
    done_order, collector, collected, successful_users, failed_users,
    startup_mode, session_end, notified>>

\* rounds started so far
RECURSIVE SumTo(_, _)
SumTo(rs, d) == IF d < 0 THEN 0 ELSE rs[d] + SumTo(rs, d - 1)

RoundsTotal(rs) == SumTo(rs, MaxDays)

\* app.py:147-148: the count advances when run_single_session returns;
\* an exception skips the increment
CountAfterRound(count, how) == IF how = "returned" THEN count + 1 ELSE count

\* app.py:139: the limit of the day is reached
LimitReached(count, limit) == count >= limit

DaemonInit ==
  /\ daemon_pc = "loop"
  /\ max_daily_sessions \in 1..MaxDaily
  /\ daily_session_count = 0
  /\ last_session_date = NoDate
  /\ today = 0
  /\ rounds_started = [d \in Dates |-> 0]
  /\ started_after_shutdown = FALSE

\* app.py:132-147: the test of the loop, the reset of the count on a new
\* date, the limit of the day, and the start of a round; nothing between
\* them suspends the coroutine
DaemonLoop ==
  /\ daemon_pc = "loop"
  /\ IF shutdown_requested
     THEN /\ daemon_pc' = "stopped"
          /\ UNCHANGED <<daily_session_count, last_session_date,
                         rounds_started, started_after_shutdown>>
     ELSE LET count == IF last_session_date # today THEN 0
                       ELSE daily_session_count
          IN  /\ last_session_date' = today
              /\ daily_session_count' = count
              /\ IF LimitReached(count, max_daily_sessions)
                 THEN /\ daemon_pc' = "wait_day"
                      /\ UNCHANGED <<rounds_started, started_after_shutdown>>
                 ELSE /\ RoundsTotal(rounds_started) < MaxRounds
                      /\ daemon_pc' = "round"
                      /\ rounds_started' =
                           [rounds_started EXCEPT ![today] = @ + 1]
                      /\ started_after_shutdown' =
                           (started_after_shutdown \/ shutdown_requested)
  /\ UNCHANGED <<max_daily_sessions, today>>
  /\ UNCHANGED <<multiVars, besideApp, singleVars>>

\* app.py:146-166: run_single_session returns, and the interval before the
\* next round begins unless shutdown was requested; or it raises, the
\* exception is logged and the sleep of 300 seconds begins
RoundEnds ==
  /\ daemon_pc = "round"
  /\ \E how \in {"returned", "raised"} :
       /\ daily_session_count' = CountAfterRound(daily_session_count, how)
       /\ daemon_pc' = IF how = "raised" THEN "error_sleep"
                       ELSE IF shutdown_requested THEN "loop"
                       ELSE "interval"
  /\ UNCHANGED <<max_daily_sessions, last_session_date, today,
                 rounds_started, started_after_shutdown>>
  /\ UNCHANGED <<multiVars, besideApp, singleVars>>

\* app.py:159-162, 166, 178-181: a sleep is over, or was left because
\* shutdown was requested
SleepOver ==
  /\ daemon_pc \in {"interval", "error_sleep", "wait_day"}
  /\ daemon_pc' = "loop"
  /\ UNCHANGED <<max_daily_sessions, daily_session_count, last_session_date,
                 today, rounds_started, started_after_shutdown>>
  /\ UNCHANGED <<multiVars, besideApp, singleVars>>

\* the date changes
Midnight ==
  /\ today < MaxDays
  /\ daemon_pc # "stopped"
  /\ today' = today + 1
  /\ UNCHANGED <<daemon_pc, max_daily_sessions, daily_session_count,
                 last_session_date, rounds_started, started_after_shutdown>>
  /\ UNCHANGED <<multiVars, besideApp, singleVars>>

\* app.py:52-54: a signal in daemon mode
DaemonSignal ==
  /\ ~shutdown_requested
  /\ daemon_pc # "stopped"
  /\ shutdown_requested' = TRUE
  /\ UNCHANGED daemonVars
  /\ UNCHANGED <<multiButShutdown, besideApp, singleVars>>

DaemonNext ==
  \/ DaemonLoop
  \/ RoundEnds
  \/ SleepOver
  \/ Midnight
  \/ DaemonSignal

(***************************************************************************)
(* The library parts at rest: none of their operations has been called.    *)
(***************************************************************************)
HashIdle ==
  /\ h_pc = "idle"
  /\ h_input = <<>>
  /\ h_digest = <<>>
  /\ h_pos = 0
  /\ h_variant = <<>>
  /\ h_variant_digest = <<>>
  /\ h_again = <<>>

RateIdle ==
  /\ rate_limit = 0
  /\ interval = 0
  /\ last_acquire = 0
  /\ lock = 0
  /\ monotonic = 0
  /\ rl_pc = [c \in Callers |-> "idle"]
  /\ rl_wake = [c \in Callers |-> 0]
  /\ rl_called = [c \in Callers |-> 0]
  /\ rl_returns = 0
  /\ rl_prev_return = 0
  /\ rl_last_return = 0
  /\ rl_last_delay = 0

ExtractIdle ==
  /\ x_pc = "idle"
  /\ x_response = <<>>
  /\ x_rt = 0
  /\ x_credited = 0

CurlIdle ==
  /\ c_pc = "idle"
  /\ c_command = <<>>
  /\ c_quotes = [a \in {"h", "b", "d"} |-> SQ]
  /\ c_given = [headers |-> EmptyDict, cookies |-> EmptyDict,
                request_data |-> EmptyDict]
  /\ c_result = [headers |-> EmptyDict, cookies |-> EmptyDict,
                 request_data |-> EmptyDict]

SelIdle ==
  /\ mode = "smart_random"
  /\ fallback_to_config = TRUE
  /\ lists = <<>>
  /\ books = <<>>
  /\ reading_manager = [m \in Managers |-> NewManager(<<>>, {})]
  /\ adopts_left = [m \in Managers |-> 0]
  /\ calls_left = [m \in Managers |-> 0]
  /\ returned = [m \in Managers |-> <<>>]
  /\ last_op = [manager |-> 0, method |-> "none"]
  /\ books_at_start = <<>>
  /\ book_switch_cooldown = Cooldown
  /\ clock = ClockStart
  /\ session_phase = [m \in Managers |-> "none"]
  /\ callers = SpacedCalls
  /\ profile = [m \in Managers |-> NoProfile]
  /\ switched_to = ""

HttpIdle ==
  /\ retry_times = 3
  /\ post_pc = "idle"
  /\ attempts = 0
  /\ attempt = 0
  /\ last_error = NoError
  /\ request_times = 0
  /\ posts_left = 0
  /\ slots = 0
  /\ tries = <<>>
  /\ sleeps = 0
  /\ raised = NoError

RenewIdle ==
  /\ cookies = [n \in SessionCookies |-> Absent]
  /\ renew_response = [raises |-> TRUE, jar |-> "", set_cookie |-> <<>>]
  /\ renew_result = FALSE
  /\ renewals_left = 0

SingleIdle ==
  /\ users_configured = TRUE
  /\ single_profile_ok = TRUE
  /\ single_pc = "unused"
  /\ single_end = "none"

DaemonIdle ==
  /\ daemon_pc = "unused"
  /\ max_daily_sessions = 12
  /\ daily_session_count = 0
  /\ last_session_date = NoDate
  /\ today = 0
  /\ rounds_started = [d \in Dates |-> 0]
  /\ started_after_shutdown = FALSE

LibIdle ==
  HashIdle /\ RateIdle /\ CurlIdle /\ SelIdle /\ ExtractIdle
  /\ HttpIdle /\ RenewIdle /\ SingleIdle /\ DaemonIdle

(***************************************************************************)
(* _run_multi_user_sessions (app.py:233-297).                              *)
(***************************************************************************)
Users == 1..NumUsers

\* a semaphore as large as the user list, whatever the configuration says
ConcurrencyUnclamped(m, n) == n

\* app.py:239-241
Concurrency(m, n) == Min(Max(1, m), n)

\* app.py:62-70: "scheduled" passes an exception of run_single_session on
\* to main as "immediate" does
StartupModes == {"immediate", "daemon"}

\* a shutdown request that run_for_user does not look at
ShutdownIgnored(requested) == FALSE

\* app.py:248, 253: run_for_user returns None when shutdown was requested
SkipUser(requested) == requested

\* app.py:288: a result counts as successful
IsSuccess(r) == r = "success"

Range(q) == {q[k] : k \in DOMAIN q}

\* no multi-user run is in progress
MultiIdle ==
  /\ profile_ok = [u \in Users |-> TRUE]
  /\ max_concurrent_users = 1
  /\ shutdown_requested = FALSE
  /\ permits = 0
  /\ managers = {}
  /\ task = [u \in Users |-> "unscheduled"]
  /\ task_result = [u \in Users |-> "pending"]
  /\ done_order = <<>>
  /\ collector = "idle"
  /\ collected = 0
  /\ successful_users = <<>>
  /\ failed_users = <<>>
  /\ startup_mode = "immediate"
  /\ session_end = [u \in Users |-> "none"]
  /\ notified = [u \in Users |-> 0]

\* app.py:236-282: the semaphore and one task per user have been created
MultiInit ==
  /\ profile_ok \in [Users -> BOOLEAN]
  /\ max_concurrent_users \in 0..(NumUsers + 1)
  /\ shutdown_requested = FALSE
  /\ permits = Concurrency(max_concurrent_users, NumUsers)
  /\ managers = {}
  /\ task = [u \in Users |-> "created"]
  /\ task_result = [u \in Users |-> "pending"]
  /\ done_order = <<>>
  /\ collector = "collecting"
  /\ collected = 0
  /\ successful_users = <<>>
  /\ failed_users = <<>>
  /\ startup_mode \in StartupModes
  /\ session_end = [u \in Users |-> "none"]
  /\ notified = [u \in Users |-> 0]

\* a task ends with result r
Finish(u, r) ==
  /\ task' = [task EXCEPT ![u] = "finished"]
  /\ task_result' = [task_result EXCEPT ![u] = r]
  /\ done_order' = Append(done_order, u)

\* app.py:248-252: first shutdown check, then the task queues for a slot
StartTask(u) ==
  /\ task[u] = "created"
  /\ IF SkipUser(shutdown_requested)
     THEN Finish(u, "skipped")
     ELSE /\ task' = [task EXCEPT ![u] = "waiting"]
          /\ UNCHANGED <<task_result, done_order>>
  /\ UNCHANGED <<profile_ok, max_concurrent_users, shutdown_requested,
                 permits, managers, collector, collected, successful_users,
                 failed_users, session_end>>
  /\ UNCHANGED <<sessionVars, libVars, startup_mode>>
  /\ UNCHANGED notified

\* app.py:252-258: the slot is acquired; second shutdown check; the
\* controller is constructed (session.py:164-165 raises ValueError when no
\* profile is found, 207-209 re-raises a parse error) and registered
AcquireSlot(u) ==
  /\ task[u] = "waiting"
  /\ permits > 0
  /\ IF SkipUser(shutdown_requested)
     THEN /\ Finish(u, "skipped")
          /\ UNCHANGED <<permits, managers>>
     ELSE IF ~profile_ok[u]
     THEN /\ Finish(u, "raised")
          /\ UNCHANGED <<permits, managers>>
     ELSE /\ task' = [task EXCEPT ![u] = "running"]
          /\ permits' = permits - 1
          /\ managers' = managers \cup {u}
          /\ UNCHANGED <<task_result, done_order>>
  /\ UNCHANGED <<profile_ok, max_concurrent_users, shutdown_requested,
                 collector, collected, successful_users, failed_users,
                 session_end>>
  /\ UNCHANGED <<sessionVars, libVars, startup_mode>>
  /\ UNCHANGED notified

\* app.py:260-275: start_reading_session returns its statistics, or raises
\* FatalSessionError or another exception, which run_for_user catches and
\* hands to the NotificationService (266-271)
SessionEnds(u) ==
  /\ task[u] = "running"
  /\ \E how \in {"completed", "fatal", "error"} :
       /\ session_end' = [session_end EXCEPT ![u] = how]
       /\ Finish(u, IF how = "completed" THEN "success" ELSE "failure")
       /\ notified' = IF how = "completed" THEN notified
                      ELSE [notified EXCEPT ![u] = @ + 1]
       /\ managers' = RegistryAfterExit(managers, u, how)
  /\ permits' = permits + 1
  /\ UNCHANGED <<profile_ok, max_concurrent_users, shutdown_requested,
                 collector, collected, successful_users, failed_users>>
  /\ UNCHANGED <<sessionVars, libVars, startup_mode>>

\* app.py:284-292: the next completed task is awaited
Collect ==
  /\ collector = "collecting"
  /\ collected < Len(done_order)
  /\ LET u == done_order[collected + 1]
         r == task_result[u]
     IN  /\ collected' = collected + 1
         /\ collector' = IF r = "raised" THEN "raised" ELSE collector
         /\ successful_users' =
              IF r \in {"success", "failure"} /\ IsSuccess(r)
              THEN Append(successful_users, u) ELSE successful_users
         /\ failed_users' =
              IF r \in {"success", "failure"} /\ ~IsSuccess(r)
              THEN Append(failed_users, u) ELSE failed_users
  /\ UNCHANGED <<profile_ok, max_concurrent_users, shutdown_requested,
                 permits, managers, task, task_result, done_order,
                 session_end>>
  /\ UNCHANGED <<sessionVars, libVars, startup_mode>>
  /\ UNCHANGED notified

\* app.py:294-297: every task has been awaited, the summary is produced
Summarize ==
  /\ collector = "collecting"
  /\ collected = NumUsers
  /\ collector' = "summarized"
  /\ UNCHANGED <<profile_ok, max_concurrent_users, shutdown_requested,
                 permits, managers, task, task_result, done_order,
                 collected, successful_users, failed_users, session_end>>
  /\ UNCHANGED <<sessionVars, libVars, startup_mode>>
  /\ UNCHANGED notified

\* app.py:52-54: a signal under the graceful policy
RequestShutdown ==
  /\ ~shutdown_requested
  /\ collector = "collecting"
  /\ shutdown_requested' = TRUE
  /\ UNCHANGED <<profile_ok, max_concurrent_users, permits, managers, task,
                 task_result, done_order, collector, collected,
                 successful_users, failed_users, session_end>>
  /\ UNCHANGED <<sessionVars, libVars, startup_mode>>
  /\ UNCHANGED notified

\* app.py:75, 397-406: the exception of the collection loop leaves
\* run_single_session and app.run(); main hands one message with the text
\* of the exception to the NotificationService
MainReportsError ==
  /\ collector = "raised"
  /\ startup_mode = "immediate"
  /\ collector' = "reported"
  /\ notified' = [notified EXCEPT ![done_order[collected]] = @ + 1]
  /\ UNCHANGED <<profile_ok, max_concurrent_users, shutdown_requested,
                 permits, managers, task, task_result, done_order,
                 collected, successful_users, failed_users, session_end>>
  /\ UNCHANGED <<sessionVars, libVars, startup_mode>>

\* app.py:164-166: the daemon loop logs the exception and sleeps
DaemonLogsError ==
  /\ collector = "raised"
  /\ startup_mode = "daemon"
  /\ collector' = "logged"
  /\ UNCHANGED <<profile_ok, max_concurrent_users, shutdown_requested,
                 permits, managers, task, task_result, done_order,
                 collected, successful_users, failed_users, session_end>>
  /\ UNCHANGED <<sessionVars, libVars, startup_mode>>
  /\ UNCHANGED notified

MultiNext ==
  \/ \E u \in Users : StartTask(u)
  \/ \E u \in Users : AcquireSlot(u)
  \/ \E u \in Users : SessionEnds(u)
  \/ Collect
  \/ Summarize
  \/ RequestShutdown
  \/ MainReportsError
  \/ DaemonLogsError

Init == SessionInit /\ server = PlainServer /\ MultiIdle /\ LibIdle

Next == SessionNext

Spec == Init /\ [][Next]_vars

\* the multi-user run; the single session of Spec is not started
MultiStart ==
  /\ SessionInit
  /\ server = PlainServer
  /\ curl_data = CurlValue
  /\ target_seconds = 60
  /\ MultiInit
  /\ LibIdle

MultiSpec == MultiStart /\ [][MultiNext]_vars

\* one session of a complete profile, with or without a captured s, against
\* a server that may send any hint and leave out the synckey
ReadStart ==
  /\ SessionInit
  /\ server = AnyServer
  /\ \A f \in {"appId", "b", "c", "ps", "pc"} : curl_data[f] = CurlValue[f]
  /\ target_seconds = 60
  /\ MultiIdle
  /\ LibIdle

\* the steps of the session and of the fix-up tasks it creates
ReadNext == SessionNext \/ FixNoSynckey

ReadSpec == ReadStart /\ [][ReadNext]_vars

\* the session of Spec and the multi-user run are not started
RestIdle ==
  /\ SessionInit
  /\ server = PlainServer
  /\ curl_data = CurlValue
  /\ target_seconds = 60
  /\ MultiIdle

\* a payload is about to be signed; nothing else is running
HashStart ==
  RestIdle /\ HashInit /\ RateIdle /\ CurlIdle /\ SelIdle /\ ExtractIdle
  /\ HttpIdle /\ RenewIdle /\ SingleIdle /\ DaemonIdle

HashSpec == HashStart /\ [][HashNext]_vars

\* a rate limiter has been constructed; nothing else is running
RateStart ==
  RestIdle /\ HashIdle /\ RateInit /\ CurlIdle /\ SelIdle /\ ExtractIdle
  /\ HttpIdle /\ RenewIdle /\ SingleIdle /\ DaemonIdle

RateSpec == RateStart /\ [][RateNext]_vars

\* a captured command is about to be parsed; nothing else is running
CurlStart ==
  RestIdle /\ HashIdle /\ RateIdle /\ CurlInit /\ SelIdle /\ ExtractIdle
  /\ HttpIdle /\ RenewIdle /\ SingleIdle /\ DaemonIdle

CurlSpec == CurlStart /\ [][CurlNext]_vars

\* an accepting response is about to be searched; nothing else is running
ExtractStart ==
  RestIdle /\ HashIdle /\ RateIdle /\ CurlIdle /\ SelIdle /\ ExtractInit
  /\ HttpIdle /\ RenewIdle /\ SingleIdle /\ DaemonIdle

ExtractSpec == ExtractStart /\ [][ExtractNext]_vars

\* the reading managers have been built and are called directly, the
\* calls more than the cooldown apart; nothing else is running
SelStart ==
  /\ RestIdle /\ HashIdle /\ RateIdle /\ CurlIdle /\ SelInit /\ ExtractIdle
     /\ HttpIdle /\ RenewIdle /\ SingleIdle /\ DaemonIdle
  /\ callers = SpacedCalls
  /\ \A m \in Managers : session_phase[m] = "none" /\ adopts_left[m] = 1

SelSpec == SelStart /\ [][SelNext]_vars

\* one session has been constructed and owns the first manager; the
\* other managers are left alone
PosStart ==
  /\ RestIdle /\ HashIdle /\ RateIdle /\ CurlIdle /\ SelInit /\ ExtractIdle
     /\ HttpIdle /\ RenewIdle /\ SingleIdle /\ DaemonIdle
  /\ callers = AnyCalls
  /\ session_phase[1] = "constructed"
  /\ \A m \in Managers \ {1} : adopts_left[m] = 0

\* __init__ hands the position of the profile to the manager
\* (session.py:196), start_reading_session makes sure a position exists
\* (session.py:234), every read asks for the next one (session.py:320)
PosNext ==
  \/ \E m \in Managers : SetCurlData(m)
  \/ \E m \in Managers : StartReadingSession(m)
  \/ \E m \in Managers : SequentialPosition(m)
  \/ \E m \in Managers : PureRandomPosition(m)
  \/ \E m \in Managers : SmartRandomPosition(m)

PosSpec == PosStart /\ [][PosNext]_vars

\* an HttpClient has been built; nothing else is running
HttpStart ==
  /\ RestIdle /\ HashIdle /\ RateIdle /\ CurlIdle /\ SelIdle /\ ExtractIdle
     /\ RenewIdle /\ SingleIdle /\ DaemonIdle
  /\ HttpInit

HttpSpec == HttpStart /\ [][HttpNext]_vars

\* a session has its cookies; nothing else is running
RenewStart ==
  /\ RestIdle /\ HashIdle /\ RateIdle /\ CurlIdle /\ SelIdle /\ ExtractIdle
     /\ HttpIdle /\ SingleIdle /\ DaemonIdle
  /\ RenewInit

RenewSpec == RenewStart /\ [][RenewNext]_vars

\* run_single_session has begun, for a configuration with users or for
\* one without
RegistryStart ==
  /\ SessionInit
  /\ server = PlainServer
  /\ curl_data = CurlValue
  /\ target_seconds = 60
  /\ \/ MultiInit /\ SingleIdle
     \/ MultiIdle /\ SingleInit
  /\ HashIdle /\ RateIdle /\ CurlIdle /\ SelIdle /\ ExtractIdle /\ HttpIdle
     /\ RenewIdle /\ DaemonIdle

RegistryNext == MultiNext \/ SingleNext

RegistrySpec == RegistryStart /\ [][RegistryNext]_vars

\* the daemon loop is about to begin; no round is running
DaemonStart ==
  /\ RestIdle /\ HashIdle /\ RateIdle /\ CurlIdle /\ SelIdle /\ ExtractIdle
     /\ HttpIdle /\ RenewIdle /\ SingleIdle
  /\ DaemonInit

DaemonSpec == DaemonStart /\ [][DaemonNext]_vars

(***************************************************************************)
(* The session under the scheduling of the asyncio loop: a coroutine that  *)
(* can take a step takes it, and the wall clock keeps advancing (a wait    *)
(* that can end at a later instant eventually does).                       *)
(***************************************************************************)
LiveInit ==
  /\ Init
  /\ curl_data = CurlValue
  /\ target_seconds = 60

LiveSpec ==
  /\ LiveInit
  /\ [][Next]_vars
  /\ WF_vars(Next)
  /\ SF_vars(RecordRead /\ now' > now)
  /\ SF_vars(PrepareRaises /\ now' > now)

(***************************************************************************)
(* Properties of one session.                                              *)
(***************************************************************************)
Terminal == {"Completed", "Fatal", "Aborted"}

C2_CompletedAtTargetOrCap ==
  pc = "Completed" =>
    \/ credited_seconds >= target_seconds
    \/ stats.actual_duration_seconds >=
         (IF 3 * target_seconds >= target_seconds + 600
          THEN 3 * target_seconds ELSE target_seconds + 600)

C2_Witness ==
  /\ pc = "Completed"
  /\ target_seconds = 360
  /\ credited_seconds < target_seconds
  /\ stats.actual_duration_seconds >= 1080

\* C3: provided the wall clock keeps advancing, every reading loop that has
\* started eventually reaches Completed or Fatal, whatever its iterations
\* do.
C3_LoopTerminates == (pc = "Looping") ~> (pc \in {"Completed", "Fatal"})

\* C4: with a target of one minute, when the first two reads are rejected
\* and the third is accepted with addTime = 60, the session completes with
\* failed_reads = 2, successful_reads = 1 and 60 credited seconds, and no
\* read request follows the accepted one.
C4_RejectRejectAccept ==
  target_seconds = 60 =>
    /\ scen # 5
    /\ scen = 3 /\ pc = "Looping" =>
         /\ stats.failed_reads = 2
         /\ stats.successful_reads = 1
         /\ credited_seconds = 60
         /\ ~LoopCondition(credited_seconds, target_seconds,
                           stats.actual_duration_seconds)
    /\ scen = 3 /\ pc \in Terminal =>
         /\ pc = "Completed"
         /\ stats.failed_reads = 2
         /\ stats.successful_reads = 1
         /\ stats.credited_seconds = 60

C4_Witness ==
  /\ target_seconds = 60
  /\ scen = 3
  /\ pc = "Completed"

C6_IdentityFromProfile ==
  /\ (\E f \in {"appId", "ps", "pc"} : ~Truthy(curl_data[f])) =>
       reads_sent = 0
  /\ reads_sent > 0 =>
       \A f \in {"appId", "ps", "pc"} :
         sent[f] # "" /\ sent[f] = curl_data[f]

\* C7: whenever start_reading_session has returned or raised, the HTTP
\* client of the session has been closed.
C7_ClientClosedOnExit == pc \in Terminal => closed

\* C8: end_time is assigned exactly once, at termination, on the normal
\* and on the fatal path, and never while the loop is running.
C8_EndTimeSetAtTermination ==
  /\ pc \in {"Completed", "Fatal"} => end_sets = 1 /\ stats.end_time # -1
  /\ pc \notin Terminal => end_sets = 0 /\ stats.end_time = -1

(***************************************************************************)
(* Properties of a multi-user run.                                         *)
(***************************************************************************)
\* C9: an exception raised by one user's start_reading_session ends only
\* that user's session: once the run is over the user is in the failed
\* list, and the step that ends the session leaves every other task where
\* it was.
C9_FailureIsolated ==
  /\ [](collector \in {"summarized", "raised"} =>
          \A u \in Users :
            session_end[u] \in {"fatal", "error"} =>
              u \in Range(failed_users))
  /\ [][\A u \in Users :
          session_end'[u] # session_end[u] =>
            \A v \in Users \ {u} : task'[v] = task[v]]_vars

\* C10: every multi-user run ends with the summary, never with an
\* exception of the collection loop, and in the summary every user that
\* was not skipped is in exactly one of the two lists - also a user whose
\* controller could not be constructed.
C10_SummaryCoversEveryUser ==
  /\ collector # "raised"
  /\ collector = "summarized" =>
       \A u \in Users :
         task_result[u] # "skipped" =>
           (u \in Range(successful_users)) # (u \in Range(failed_users))

\* the sessions in flight: constructed and not yet finished
InFlight == {u \in Users : task[u] = "running"}

\* C11: at every moment of a multi-user run the number of sessions in
\* flight is at most min(max(1, maxConcurrency), userCount).
C11_InFlightBounded ==
  LET m == IF max_concurrent_users < 1 THEN 1 ELSE max_concurrent_users
      bound == IF m < NumUsers THEN m ELSE NumUsers
  IN  /\ Cardinality(InFlight) <= bound
      /\ Cardinality(managers) <= bound

\* the bound is reached while another user is still waiting for a slot
C11_Witness ==
  /\ max_concurrent_users = 2
  /\ Cardinality(InFlight) = 2
  /\ \E u \in Users : task[u] = "waiting"

\* C12: under the graceful policy, once shutdown has been requested no
\* session is started any more: a task that has not started its session
\* is skipped and appears in neither list of the summary, and a session in
\* flight stays in flight until it completes or fails by itself.
C12_GracefulShutdown ==
  /\ [][shutdown_requested =>
          \A u \in Users :
            /\ task[u] # "running" => task'[u] # "running"
            /\ task[u] \in {"created", "waiting"} /\ task'[u] = "finished"
                 => task_result'[u] \in {"skipped"}]_vars
  /\ [][\A u \in Users :
          task[u] = "running" /\ task'[u] # "running" =>
            /\ task'[u] = "finished"
            /\ session_end'[u] \in {"completed", "fatal", "error"}]_vars
  /\ [](\A u \in Users :
          task_result[u] = "skipped" =>
            u \notin Range(successful_users) \cup Range(failed_users))

\* after the request one user has been skipped while another user's
\* session is still in flight
C12_Witness ==
  /\ shutdown_requested
  /\ \E u \in Users : task_result[u] = "skipped"
  /\ \E u \in Users : task[u] = "running"

\* C20: the signature captured from the profile is used in at most one
\* loop iteration of a session; every later iteration sends computed
\* signatures only.
C20_CapturedSOneShot == initial_s_tries <= 1

\* C21: in every failure streak whose consecutive-failure count reaches 2
\* the alternative s candidates are tried, also in a second or later
\* streak of the same session: whenever the ladder arrives at the second
\* rung, its next step generates the candidates.
C21_VariantsTriedInEveryStreak ==
  [][pc = "variants" => pc' = "variant"]_vars

\* the requests of the current iteration sent as form data, and those
\* signed with an alternative s candidate
FormPosts == {i \in DOMAIN posts : posts[i].enc = "form"}
VariantPosts == {i \in DOMAIN posts : posts[i].s = "variant"}

\* C22: when the main JSON request is rejected and the consecutive-failure
\* count becomes 1, the payload just rejected is posted again, once, as
\* form data (and at no other count); when the form request is accepted
\* the counter is 0, the iteration has sent no s candidate and attempted
\* no cookie renewal, and the read is recorded as successful.
C22_FormFallbackOnce ==
  /\ [][pc = "main" /\ consecutive_failures = 0
          /\ consecutive_failures' = 1 => pc' = "form"]_vars
  /\ [](pc = "form" =>
          /\ consecutive_failures = 1
          /\ FormPosts = {}
          /\ posts[Len(posts)] = [enc |-> "json", s |-> "calculated"])
  /\ [][pc = "form" /\ pc' # pc =>
          /\ posts' = Append(posts, [enc |-> "form",
                                     s |-> posts[Len(posts)].s])
          /\ sent' = sent
          /\ rt' = rt]_vars
  /\ [](Cardinality(FormPosts) <= 1)
  /\ [](pc = "record" /\ accepted.by = "form" =>
          /\ result.success
          /\ consecutive_failures = 0
          /\ posts[Len(posts)].enc = "form"
          /\ VariantPosts = {}
          /\ renewals = <<>>)
  /\ [][pc = "record" /\ accepted.by = "form" /\ pc' # pc =>
          /\ pc' = "Looping"
          /\ stats'.successful_reads = Inc(stats.successful_reads)
          /\ stats'.failed_reads = stats.failed_reads
          /\ reads_sent' = reads_sent]_vars

C22_Witness ==
  /\ pc = "record"
  /\ accepted.by = "form"
  /\ Len(posts) = 3
  /\ stats.failed_reads = 0

\* C23: a rejected read that leaves the consecutive-failure count at 1 or
\* 2 and that no rung rescued attempts one cookie renewal, exactly one in
\* the iteration, and is recorded as a failed read; whatever the renewal
\* returns, the loop goes on.
C23_OneRenewalAfterUnrescuedReject ==
  /\ [][pc = "decide" /\ consecutive_failures \in {1, 2} /\ pc' # pc =>
          /\ pc' = "record"
          /\ Len(renewals') = 1
          /\ ~result'.success
          /\ outcome' = "rej"]_vars
  /\ [](Len(renewals) <= 1)
  /\ [](pc = "record" =>
          (Len(renewals) = 1 <=> outcome = "rej"))
  /\ [][pc = "record" /\ outcome = "rej" /\ pc' # pc =>
          /\ pc' = "Looping"
          /\ exit_kind' = "none"
          /\ stats'.failed_reads = Inc(stats.failed_reads)
          /\ stats'.successful_reads = stats.successful_reads]_vars

C23_Witness ==
  /\ pc = "record"
  /\ outcome = "rej"
  /\ consecutive_failures = 2
  /\ renewals = <<"error">>

\* C24: a main request that fails in the transport is recorded as one
\* failed read, leaves the consecutive-failure counter as it was, sends
\* nothing more in its iteration and does not end the session: the loop
\* goes on.
C24_TransportFailureIsOneFailedRead ==
  /\ [][pc = "main" /\ main_kind' = "err" =>
          /\ consecutive_failures' = consecutive_failures
          /\ pc' = "record"
          /\ ~result'.success]_vars
  /\ [](pc = "record" /\ main_kind = "err" =>
          /\ outcome = "err"
          /\ renewals = <<>>
          /\ posts[Len(posts)] = [enc |-> "json", s |-> "calculated"])
  /\ [][pc = "record" /\ main_kind = "err" /\ pc' # pc =>
          /\ pc' = "Looping"
          /\ exit_kind' = "none"
          /\ consecutive_failures' = consecutive_failures
          /\ stats'.failed_reads = Inc(stats.failed_reads)
          /\ stats'.successful_reads = stats.successful_reads]_vars

C24_Witness ==
  /\ pc = "record"
  /\ main_kind = "err"
  /\ consecutive_failures = 2
  /\ stats.failed_reads = 2

\* C25: a main request answered by a 2xx response whose body is not JSON
\* leaves the consecutive-failure counter as it was and does not make the
\* session fatal.
C25_MalformedBodyIsTransient ==
  /\ [][pc = "main" /\ main_kind' = "nojson" =>
          consecutive_failures' = consecutive_failures]_vars
  /\ [][main_kind = "nojson" => pc' # "Fatal"]_vars

\* C26: every accepted read whose response has no synckey, accepted by the
\* main JSON request or by the form request, has scheduled one fix-up
\* call; the read is a success with its credited seconds whatever becomes
\* of the call.
C26_FixupScheduledForAcceptedRead ==
  pc = "record" /\ accepted.by \in {"main", "form"} /\ ~accepted.synckey =>
    /\ fixups = 1
    /\ result.success

RECURSIVE FirstOccurrence(_, _, _)
\* the number a depth-first walk of the members of obj, from the i-th on,
\* meets first under key k, objects in arrays included
FirstOccurrence(obj, k, i) ==
  IF i > Len(obj) THEN NotFound
  ELSE IF obj[i].key = k /\ obj[i].kind = "num" THEN Found(obj[i].num)
  ELSE LET inside == FirstOccurrence(obj[i].sub, k, 1)
       IN  IF inside.found THEN inside ELSE FirstOccurrence(obj, k, i + 1)

\* the first key of the list that occurs anywhere in the response
KeysPresent(obj) ==
  {j \in DOMAIN CreditKeys : FirstOccurrence(obj, CreditKeys[j], 1).found}

\* C27: the credited seconds of an accepted read are the value of the
\* first key of the priority list that occurs anywhere in the response,
\* found depth-first (a key of higher priority wins wherever it is), and
\* the rt of the request when none of the keys occurs.
C27_CreditedIsFirstKeyAnywhere ==
  x_pc = "extracted" =>
    x_credited =
      (IF KeysPresent(x_response) # {}
       THEN FirstOccurrence(x_response,
                            CreditKeys[SetMin(KeysPresent(x_response))],
                            1).value
       ELSE x_rt)

\* C28: the credited seconds accumulated by the loop never decrease.
C28_CreditedNeverDecreases ==
  [][credited_seconds' >= credited_seconds]_vars

\* the identity fields as construction fixed them
IdentityAtConstruction ==
  [f \in {"appId", "ps", "pc"} |-> UserField(curl_data, f)]

\* C29: every read request of a session - captured signature, main JSON
\* request, form fallback, s candidate - carries the appId, ps and pc that
\* construction fixed, in every iteration; the fields never change.
C29_IdentityImmutable ==
  /\ [](sent # NoRequest => sent = IdentityAtConstruction)
  /\ [][sent # NoRequest => sent' = sent]_vars
  /\ [][<<user_app_id, user_ps, user_pc, data>>' =
          <<user_app_id, user_ps, user_pc, data>>]_vars

C29_Witness ==
  /\ pc = "decide"
  /\ variant_idx = 1
  /\ initial_s_tries = 2
  /\ stats.failed_reads >= 1
  /\ sent = IdentityAtConstruction
  /\ sent.ps = DEFAULT_DATA.ps

(***************************************************************************)
(* Properties of calculate_hash.                                           *)
(***************************************************************************)
\* the loop of utils.py:86-94 reads the character at 1-based position p of
\* a string of the given length: every position but the first one of a
\* string of odd length
ReadByLoop(length, p) == ~(p = 1 /\ length % 2 = 1)

\* the shift applied to the character at 1-based position p: positions at
\* an even distance from the end are absorbed by the first accumulator
ShiftAt(length, p) ==
  IF (length - p) % 2 = 0
  THEN (length - (p - 1)) % ShiftModulus
  ELSE p % ShiftModulus

C14_ReturnsSpaced ==
  /\ rate_limit > 0 /\ rl_returns >= 2 =>
       (rl_last_return - rl_prev_return) * rate_limit >= 60
  /\ rate_limit <= 0 /\ rl_returns >= 1 => rl_last_delay = 0

\* two callers were in acquire() at the same time, one of them queued
\* behind the other, and both have returned
C14_Witness ==
  /\ rate_limit = 20
  /\ rl_returns >= 2
  /\ rl_last_return - rl_prev_return = 3
  /\ rl_last_delay > 3

(***************************************************************************)
(* Properties of the CurlParser.                                           *)
(***************************************************************************)
\* C18: a command made of one double-quoted -H header, a double-quoted -b
\* cookie string and a double-quoted JSON body whose double quotes are
\* escaped by backslashes is parsed into exactly that header, those
\* cookies and the decoded body.
C18_DoubleQuotedCommandParsed ==
  /\ c_pc = "parsed"
  /\ \A a \in {"h", "b", "d"} : c_quotes[a] = DQ
  /\ c_given.request_data # EmptyDict
  => /\ c_result.headers = c_given.headers
     /\ c_result.cookies = c_given.cookies
     /\ c_result.request_data = c_given.request_data

(***************************************************************************)
(* Properties of the reading managers.                                     *)
(***************************************************************************)
\* the catalog that manager m observes
CatalogSeen(m) == CatalogOf(lists, reading_manager[m].book_chapters_map)

\* C13: when one session adopts a profile position, the catalog observed
\* by every other session, and the catalog of the static configuration,
\* is unchanged.
C13_NoSharedCatalog ==
  [][last_op'.method = "set_curl_data" =>
       /\ CatalogOf(lists', books') = CatalogOf(lists, books)
       /\ \A m \in Managers \ {last_op'.manager} :
            CatalogSeen(m)' = CatalogSeen(m)]_vars

\* the book at position k of a catalog, and the position of book b
BookPosition(cat, b) == CHOOSE k \in DOMAIN cat : cat[k].id = b

\* the maximal run of positions in one book that ends at position k of
\* the sequence t begins here
RunStart(t, k) ==
  CHOOSE j \in 1..k :
    /\ \A i \in j..k : t[i][1] = t[k][1]
    /\ j = 1 \/ t[j - 1][1] # t[k][1]

\* C15: in sequential mode the positions returned visit every chapter of
\* the current book, in order, before any chapter of another book, and
\* the book after the last one of the catalog is the first one: whenever
\* the returned sequence leaves a book, what it returned of that book is
\* the whole chapter sequence of the book, and the next position is the
\* first chapter of the next book.
C15_WholeBookBeforeNextBook ==
  mode = "sequential" =>
    \A m \in Managers :
      LET t == returned[m]
          cat == CatalogSeen(m)
      IN  \A k \in 1..(Len(t) - 1) :
            t[k][1] # t[k + 1][1] =>
              LET kb == BookPosition(cat, t[k][1])
                  nb == cat[(kb % Len(cat)) + 1]
              IN  /\ [i \in 1..(k - RunStart(t, k) + 1) |->
                        t[RunStart(t, k) + i - 1][2]] = cat[kb].chapters
                  /\ t[k + 1] = <<nb.id, nb.chapters[1]>>

\* C15, amended: in sequential mode every call returns the successor of
\* the current position (the adopted one, the first chapter of the first
\* book after a fallback, or the one returned before): the next chapter of
\* the same book, or the first chapter of the next book in catalog order,
\* the first book following the last one.  A book that is entered is
\* thus visited from its first to its last chapter, but the starting
\* chapter and the chapters before it are not returned in the first pass.
C15_ReturnsSuccessor ==
  [][\A m \in Managers :
       mode = "sequential"
       /\ last_op' = [manager |-> m, method |-> "get_next"]
       /\ returned'[m] # returned[m]
       => LET cat == CatalogSeen(m)
              rm == reading_manager[m]
              b == IF rm.current_book_id # "" THEN rm.current_book_id
                   ELSE cat[1].id
              i == IF rm.current_book_id # "" THEN rm.current_chapter_index
                   ELSE 0
              kb == BookPosition(cat, b)
              nb == cat[(kb % Len(cat)) + 1]
          IN  returned'[m][Len(returned'[m])] =
                IF i + 1 < Len(cat[kb].chapters)
                THEN <<b, cat[kb].chapters[i + 2]>>
                ELSE <<nb.id, nb.chapters[1]>>]_vars

\* from the adopted position (b1, c2) the manager went on to b2, then to
\* the first book again and through its chapters in order
C15_Witness ==
  /\ mode = "sequential"
  /\ Len(returned[1]) >= 3
  /\ SubSeq(returned[1], 1, 3) =
       <<<<"b2", "c3">>, <<"b1", "c1">>, <<"b1", "c2">>>>

\* C16: in pure_random and smart_random mode every returned position is
\* in the catalog: its book is a key of the catalog and its chapter is in
\* the chapter sequence of that book.
C16_ReturnedInCatalog ==
  mode \in {"pure_random", "smart_random"} =>
    \A m \in Managers : \A k \in DOMAIN returned[m] :
      LET cat == CatalogSeen(m)
      IN  \E j \in DOMAIN cat :
            /\ cat[j].id = returned[m][k][1]
            /\ \E i \in DOMAIN cat[j].chapters :
                 cat[j].chapters[i] = returned[m][k][2]

\* a smart_random manager has returned positions of two different books,
\* one of them the chapter that was appended to a configured book
C16_Witness ==
  /\ mode = "smart_random"
  /\ Len(returned[1]) >= 3
  /\ \E k \in DOMAIN returned[1] : returned[1][k][1] # returned[1][1][1]
  /\ \E k \in DOMAIN returned[1] : returned[1][k] = <<"b1", "c9">>

\* session.py:319-330: the ci that goes into the payload after manager m
\* returned a position (NoIndex: the field is left out)
PayloadCi(m) == reading_manager[m].current_chapter_ci

\* C30: in every mode, after get_next_reading_position has returned a
\* position, the ci that goes into the payload with it is the index
\* resolved for the returned chapter - its configured index, else its
\* place among the chapters of its book - and the field is left out only
\* when none resolves.
C30_CiOfReturnedChapter ==
  \A m \in Managers :
    last_op = [manager |-> m, method |-> "get_next"] =>
      LET rm == reading_manager[m]
      IN  /\ returned[m][Len(returned[m])] =
               <<rm.current_book_id, rm.current_chapter_id>>
          /\ PayloadCi(m) =
               get_chapter_index(lists, rm, rm.current_chapter_id, NoIndex)

(***************************************************************************)
(* Diagnostics of a multi-user run.                                        *)
(***************************************************************************)
\* C19: every session that ends in a fatal condition - its
\* start_reading_session raised, or its controller could not be
\* constructed - has exactly one message handed to the
\* NotificationService: as soon as the session has failed and, for a
\* controller that could not be constructed, at the latest when the
\* caller of the run has dealt with the exception.
C19_EveryFatalSessionNotifiedOnce ==
  \A u \in Users :
    /\ session_end[u] \in {"fatal", "error"} => notified[u] = 1
    /\ task_result[u] = "raised" /\ collector \in {"reported", "logged"} =>
         notified[u] = 1
    /\ notified[u] <= 1

(***************************************************************************)
(* Properties of the reading manager of one session.                       *)
(***************************************************************************)
\* chapter c has a chapter_index in the configuration of manager m
ConfiguredIndex(m, c) ==
  \E e \in reading_manager[m].chapter_index_map : e[1] = c

\* manager m has just returned the position its profile carried
ReturnedProfileChapter(m) ==
  /\ last_op = [manager |-> m, method |-> "get_next"]
  /\ profile[m].b # "" /\ profile[m].c # ""
  /\ reading_manager[m].current_book_id = profile[m].b
  /\ reading_manager[m].current_chapter_id = profile[m].c

\* C31: when the position returned for a payload is the position the
\* captured profile carried, the profile carried a ci, and the
\* configuration has no chapter_index for that chapter, the ci of the
\* payload is the ci of the profile.
C31_ProfileCiSent ==
  \A m \in Managers :
    /\ ReturnedProfileChapter(m)
    /\ profile[m].ci # NoIndex
    /\ ~ConfiguredIndex(m, profile[m].c)
    => PayloadCi(m) = profile[m].ci

\* C32: in smart_random mode a call switches to a book drawn at random
\* only if more than book_switch_cooldown seconds lie between the last
\* recorded switch and the call and the catalog has more than one book;
\* the book switched to is a book of the catalog other than the current
\* one; last_book_switch_time changes only in a call that makes such a
\* switch, and becomes the time of that call.
C32_SwitchOnlyAfterCooldown ==
  /\ [][\A m \in Managers :
          last_op' = [manager |-> m, method |-> "get_next"]
          /\ returned'[m] # returned[m]
          /\ switched_to' # ""
          => LET rm == reading_manager[m]
             IN  /\ mode = "smart_random"
                 /\ clock' - rm.last_book_switch_time > book_switch_cooldown
                 /\ Len(rm.book_chapters_map) > 1
                 /\ HasBook(rm.book_chapters_map, switched_to')
                 /\ switched_to' # rm.current_book_id]_vars
  /\ [][\A m \in Managers :
          reading_manager'[m].last_book_switch_time #
            reading_manager[m].last_book_switch_time
          => /\ last_op' = [manager |-> m, method |-> "get_next"]
             /\ switched_to' # ""
             /\ reading_manager'[m].last_book_switch_time = clock']_vars

\* the third call of a smart_random manager switched books at random
C32_Witness ==
  /\ mode = "smart_random"
  /\ last_op = [manager |-> 1, method |-> "get_next"]
  /\ Len(returned[1]) = 3
  /\ switched_to # ""
  /\ reading_manager[1].last_book_switch_time = clock

\* C33: when a smart_random call switches to a book drawn at random, the
\* position the call returns lies in that book, also when the book has a
\* single chapter.
C33_ReturnedInSwitchedBook ==
  \A m \in Managers :
    last_op = [manager |-> m, method |-> "get_next"] /\ switched_to # "" =>
      returned[m][Len(returned[m])][1] = switched_to

\* s is an initial segment of t
IsPrefix(s, t) == Len(s) <= Len(t) /\ SubSeq(t, 1, Len(s)) = s

\* C34: set_curl_data(book, chapter) with non-empty ids makes (book,
\* chapter) the current position and a member of the catalog: an unknown
\* book is added after the others with that single chapter, a chapter
\* that a known book lacks is added after its other chapters, and nothing
\* else of the catalog changes, so every book and chapter that was there
\* is still there in the same order.  With an empty book or chapter id
\* the call changes nothing.
C34_SetCurlDataAppendOnly ==
  [][\A m \in Managers :
       last_op' = [manager |-> m, method |-> "set_curl_data"]
       /\ adopts_left'[m] # adopts_left[m]
       => LET p == profile'[m]
              cat == CatalogSeen(m)
              cat2 == CatalogSeen(m)'
              rm2 == reading_manager'[m]
              chs2 == ListOf(lists', rm2.current_book_chapters)
          IN  IF p.b = "" \/ p.c = ""
              THEN /\ reading_manager'[m] = reading_manager[m]
                   /\ lists' = lists
              ELSE /\ rm2.current_book_id = p.b
                   /\ rm2.current_chapter_id = p.c
                   /\ rm2.current_chapter_index + 1 \in DOMAIN chs2
                   /\ chs2[rm2.current_chapter_index + 1] = p.c
                   /\ \E k \in DOMAIN cat2 :
                        /\ cat2[k].id = p.b
                        /\ cat2[k].chapters = chs2
                   /\ Len(cat2) >= Len(cat)
                   /\ \A k \in DOMAIN cat :
                        /\ cat2[k].id = cat[k].id
                        /\ IsPrefix(cat[k].chapters, cat2[k].chapters)
                   /\ IF ~\E k \in DOMAIN cat : cat[k].id = p.b
                      THEN cat2 = Append(cat, [id |-> p.b,
                                               chapters |-> <<p.c>>])
                      ELSE LET kb == BookPosition(cat, p.b)
                           IN  IF \E i \in DOMAIN cat[kb].chapters :
                                    cat[kb].chapters[i] = p.c
                               THEN cat2 = cat
                               ELSE cat2 =
                                      [cat EXCEPT
                                         ![kb].chapters = Append(@, p.c)]]_vars

\* the manager was handed a chapter that its configured book b1 lacked
C34_Witness ==
  /\ last_op = [manager |-> 1, method |-> "set_curl_data"]
  /\ profile[1] = [b |-> "b1", c |-> "c9", ci |-> 5]
  /\ CatalogSeen(1) =
       <<[id |-> "b1", chapters |-> <<"c1", "c2", "c9">>],
         [id |-> "b2", chapters |-> <<"c3">>]>>
  /\ reading_manager[1].current_chapter_index = 2

\* C35: the ensure_initialized of start_reading_session returns True
\* exactly when the manager has a current position, or the configuration
\* permits the fallback and the catalog is not empty; in the second case
\* the current position becomes the first chapter of the first book of
\* the catalog, in the first it stays.  When it returns False the manager
\* is left as it was and the session ends with FatalSessionError, and no
\* position is ever asked of the manager.
C35_EnsureInitialized ==
  /\ [][\A m \in Managers :
          session_phase[m] = "constructed" /\ session_phase'[m] # "constructed"
          => LET rm == reading_manager[m]
                 rm2 == reading_manager'[m]
                 cat == CatalogSeen(m)
                 exists ==
                   /\ rm.current_book_id # ""
                   /\ ListOf(lists, rm.current_book_chapters) # <<>>
             IN  /\ session_phase'[m] \in {"ready", "fatal"}
                 /\ session_phase'[m] = "ready" <=>
                      (exists \/ (fallback_to_config /\ cat # <<>>))
                 /\ session_phase'[m] = "ready" /\ exists => rm2 = rm
                 /\ session_phase'[m] = "ready" /\ ~exists =>
                      /\ rm2.current_book_id = cat[1].id
                      /\ rm2.current_chapter_id = cat[1].chapters[1]
                      /\ rm2.current_chapter_index = 0
                      /\ ListOf(lists', rm2.current_book_chapters) =
                           cat[1].chapters
                 /\ session_phase'[m] = "fatal" =>
                      reading_manager' = reading_manager
                 /\ lists' = lists]_vars
  /\ [](\A m \in Managers : session_phase[m] = "fatal" => returned[m] = <<>>)
  /\ [][\A m \in Managers :
          session_phase[m] = "fatal" =>
            /\ session_phase'[m] = "fatal"
            /\ reading_manager'[m] = reading_manager[m]]_vars

\* a session without a position from its profile fell back to the first
\* configured book and went on to read
C35_Witness ==
  /\ session_phase[1] = "ready"
  /\ adopts_left[1] = 1
  /\ fallback_to_config
  /\ returned[1] # <<>>

(***************************************************************************)
(* Properties of the HTTP client.                                          *)
(***************************************************************************)
\* the attempts of the current call that did not get a 2xx response
FailedTries == {k \in DOMAIN tries : tries[k] # "2xx"}

\* C36: one call of _request_with_retries sends at most
\* max(1, retry_times) posts; a rate-limit slot is acquired for each post
\* before it is sent; the call returns at the first post that gets a 2xx
\* response and sends nothing after it; when its last post fails it
\* raises the error of that post, having slept only between posts.
C36_BoundedRetries ==
  /\ [](/\ Len(tries) <= Max(1, retry_times)
        /\ slots \in {Len(tries), Len(tries) + 1}
        /\ \A k \in DOMAIN tries : tries[k] = "2xx" => k = Len(tries)
        /\ post_pc = "returned" <=>
             (tries # <<>> /\ tries[Len(tries)] = "2xx")
        /\ post_pc = "raised" <=>
             (Len(tries) = Max(1, retry_times) /\ FailedTries = DOMAIN tries)
        /\ post_pc = "raised" =>
             /\ raised = ErrorOf(Len(tries) - 1, tries[Len(tries)])
             /\ sleeps = Len(tries) - 1
        /\ sleeps <= Cardinality(FailedTries \ {Max(1, retry_times)}))
  /\ [][Len(tries') > Len(tries) => slots = Len(tries) + 1]_vars
  /\ [][(post_pc \in {"returned", "raised"} /\ posts_left' = posts_left) =>
          /\ tries' = tries /\ slots' = slots
          /\ sleeps' = sleeps /\ raised' = raised]_vars

\* with retry_times 3, the call raised the transport error of its third
\* post after a status error and two sleeps
C36_Witness ==
  /\ retry_times = 3
  /\ post_pc = "raised"
  /\ tries = <<"status", "status", "transport">>
  /\ raised = ErrorOf(2, "transport")
  /\ sleeps = 2
  /\ slots = 3

(***************************************************************************)
(* Properties of the cookie renewal.                                       *)
(***************************************************************************)
\* the wr_skey that a response carries: the one of its cookie jar, else
\* the value of the first cookie named wr_skey of its Set-Cookie header,
\* "" when it carries none
YieldedSkey(r) ==
  IF r.raises THEN ""
  ELSE IF r.jar # "" THEN r.jar
  ELSE LET h == r.set_cookie
           named == {k \in DOMAIN h :
                       h[k].eq /\ h[k].name = "wr_skey" /\ h[k].value # ""}
       IN  IF named = {} THEN "" ELSE h[SetMin(named)].value

\* C37: _refresh_cookie returns True, with the cookie wr_skey set to the
\* new value, only when the response carries a wr_skey in its cookie jar
\* or in its Set-Cookie header; when the response carries none, or the
\* post raises, it returns False and the cookies are as they were; no
\* cookie other than wr_skey is ever changed.
C37_RenewalSetsOnlySkey ==
  [][renewals_left' # renewals_left =>
       LET new == YieldedSkey(renew_response')
       IN  /\ renew_result' =>
                new # "" /\ cookies' = [cookies EXCEPT !["wr_skey"] = new]
           /\ new = "" => ~renew_result' /\ cookies' = cookies
           /\ \A n \in SessionCookies \ {"wr_skey"} :
                cookies'[n] = cookies[n]]_vars

(***************************************************************************)
(* C38: the registry of active controllers holds exactly the controllers   *)
(* whose session is in flight: the controller of a user from its           *)
(* registration until run_for_user is done with the session, and the       *)
(* controller of the single user likewise; so it is empty when no session  *)
(* is running, however the sessions ended.                                 *)
(***************************************************************************)
SessionsInFlight ==
  {u \in Users : task[u] = "running"}
    \cup (IF single_pc = "running" THEN {SingleUser} ELSE {})

C39_DailyLimitAndShutdown ==
  /\ \A d \in Dates : rounds_started[d] <= max_daily_sessions
  /\ ~started_after_shutdown
====
